---------------------------- MODULE Spec2Model ----------------------------
(***************************************************************************)
(* A model of the trail-network routing engine (class RouteManager):       *)
(* the segment store, the two connectivity graphs built at load, point     *)
(* snapping, the incremental route-extension rule, the shortest-path       *)
(* search, the coordinate orderer and the continuity checker.              *)
(*                                                                         *)
(* Geometry.  Every coordinate of the model lies on one meridian           *)
(* (lng = Lng0).  There the haversine distance of _getDistance is          *)
(* R * |dphi|, so with latitudes counted in metres of arc the distance of  *)
(* two points is |lat1 - lat2| exactly, and the planar projection of       *)
(* _getClosestPointOnLineSegment is the clamp of the point to the edge.    *)
(* A JavaScript object is a record; a property that is undefined is a      *)
(* field the record does not have.                                         *)
(***************************************************************************)
EXTENDS Integers, Sequences, FiniteSets, TLC

VARIABLES
    segments,          \* this.segments: Map name -> {name, coordinates}, in insertion order
    segmentMetrics,    \* this.segmentMetrics: name -> metrics
    adjacencyMap,      \* this.adjacencyMap: name -> list of adjacent names
    endpointGraph,     \* this.endpointGraph: Map node -> edge list, in insertion order
    routePoints,       \* this.routePoints
    selectedSegments,  \* this.selectedSegments
    loaded,            \* load() has completed
    call,              \* the last engine call: its name, arguments and outcome
    answers,           \* what findPathBetweenPoints returned, per pair of points,
                       \* the first time it was asked (a record of the calls; the
                       \* engine has no such field)
    search,            \* the locals of a _dijkstraPath call in progress
    ui                 \* the page's script: its routePoints, selectedSegments,
                       \* undoStack and redoStack, the drag in progress, and a
                       \* record of the last handler that ran

vars == <<segments, segmentMetrics, adjacencyMap, endpointGraph,
          routePoints, selectedSegments, loaded, call, answers, search, ui>>

network == <<segments, segmentMetrics, adjacencyMap, endpointGraph>>

-----------------------------------------------------------------------------
(* Bounds of the model *)

\* once the route has MaxPoints waypoints the caller only removes points
\* or clears the route
MaxPoints == 3

\* length of the longest point list handed to recalculateRoute and
\* restoreFromPoints
MaxInput == 2

\* length of the longest lists handed to updateInternalState
MaxState == 1

\* length of the longest segment list handed to checkSegmentsContinuity
MaxSegs == 3

\* length of the longest id list handed to encodeRoute
MaxIds == 3

-----------------------------------------------------------------------------
(* Program constants *)

\* JavaScript's Infinity: larger than every distance of the model
Infinity == 1000000

\* const threshold = 100 in _snapToNearestSegment
snapThreshold == 100

\* const connectionThreshold = 50 (adjacency, junction edges, route extension, joins)
connectionThreshold == 50

\* const tolerance = 100 in checkSegmentsContinuity
tolerance == 100

\* the meridian every coordinate of the model lies on
Lng0 == 35

\* const ROUTE_VERSION = 2 (utils/route-encoding.js)
ROUTE_VERSION == 2

-----------------------------------------------------------------------------
(* Sequences *)

Last(s) == s[Len(s)]

Reverse(s) == [i \in 1..Len(s) |-> s[Len(s) + 1 - i]]

Abs(x) == IF x < 0 THEN -x ELSE x

Min2(a, b) == IF a <= b THEN a ELSE b

SeqsUpTo(S, n) == UNION {[1..k -> S] : k \in 0..n}

\* Array.prototype.includes
Includes(s, x) == \E i \in 1..Len(s) : s[i] = x

-----------------------------------------------------------------------------
(* Points *)

Has(obj, field) == field \in DOMAIN obj

\* a value that is undefined (or null)
Undefined == [undefined |-> TRUE]

Coord(lat) == [lat |-> lat, lng |-> Lng0]

\* point && point.lat !== undefined && point.lng !== undefined
ValidPoint(p) == Has(p, "lat") /\ Has(p, "lng")

\* point.segmentName is truthy
HasSegmentName(p) == Has(p, "segmentName")

_getDistance(point1, point2) ==
    IF ~ValidPoint(point1) \/ ~ValidPoint(point2)
    THEN Infinity
    ELSE Abs(point2.lat - point1.lat)

_getClosestPointOnLineSegment(point, lineStart, lineEnd) ==
    LET A == point.lng - lineStart.lng
        B == point.lat - lineStart.lat
        C == lineEnd.lng - lineStart.lng
        D == lineEnd.lat - lineStart.lat
        dot == A * C + B * D
        lenSq == C * C + D * D
    IN  IF lenSq = 0 \/ dot < 0
        THEN [lat |-> lineStart.lat, lng |-> lineStart.lng]
        ELSE IF dot > lenSq
        THEN [lat |-> lineEnd.lat, lng |-> lineEnd.lng]
        ELSE [lat |-> lineStart.lat + (dot * D) \div lenSq,
              lng |-> lineStart.lng + (dot * C) \div lenSq]

-----------------------------------------------------------------------------
(* The segment store *)

\* the elevation of the ground at a latitude, in metres: the land rises
\* to the north, one metre in ten
Terrain(lat) == lat \div 10

\* a stored segment; the elevation of coordinates[i] is elevations[i]; the
\* feature's properties are read by none of the operations modelled here
Segment(name, lats) ==
    [name        |-> name,
     coordinates |-> [i \in 1..Len(lats) |-> Coord(lats[i])],
     elevations  |-> [i \in 1..Len(lats) |-> Terrain(lats[i])]]

\* Short edges; A, B and C chained end to start
ChainNetwork ==
    << Segment("A", <<0, 40, 80>>),
       Segment("B", <<80, 120, 160>>),
       Segment("C", <<160, 200, 240>>) >>

\* Two-vertex segments with edges longer than 100 m; A and B share an
\* endpoint, C lies 500 m beyond the end of B
ScenarioNetwork ==
    << Segment("A", <<0, 130>>),
       Segment("B", <<130, 260>>),
       Segment("C", <<760, 900>>) >>

\* Z leaves the end of Y, runs back along Y and ends 100 m before its start
ForkNetwork ==
    << Segment("Y", <<140, 180, 220>>),
       Segment("Z", <<220, 130, 40>>) >>

\* Q starts 75 m beyond the end of P: farther than the connection
\* threshold, nearer than the continuity tolerance
GapNetwork ==
    << Segment("P", <<0, 40>>),
       Segment("Q", <<115, 160, 205>>) >>

\* J ends where K starts, L starts 10 m from there: the three endpoints
\* are joined to one another by junction edges; M is out of reach
JunctionNetwork ==
    << Segment("J", <<0, 100>>),
       Segment("K", <<100, 200>>),
       Segment("L", <<110, 300>>),
       Segment("M", <<900, 1000>>) >>

\* U and V both join the point at 0 m to the point at 100 m, U directly
\* and V by way of 150 m; W goes on from there
LoopNetwork ==
    << Segment("U", <<0, 100>>),
       Segment("V", <<0, 150, 100>>),
       Segment("W", <<100, 200>>) >>

Networks == {ChainNetwork, ScenarioNetwork, ForkNetwork, GapNetwork}

SegmentNames(segs) == {segs[i].name : i \in 1..Len(segs)}

\* this.segments.has(name)
HasSegment(name) == name \in SegmentNames(segments)

\* this.segments.get(name), for a name the store has
SegmentsGet(segs, name) == segs[CHOOSE i \in 1..Len(segs) : segs[i].name = name]

Coordinates(name) == SegmentsGet(segments, name).coordinates

-----------------------------------------------------------------------------
(* load: the feature collection *)

\* a GeoJSON LineString feature; a position is <<lng, lat, elevation>>
LineStringFeature(name, lats) ==
    [geometry   |-> [type |-> "LineString",
                     coordinates |->
                         [i \in 1..Len(lats) |-> <<Lng0, lats[i], Terrain(lats[i])>>]],
     properties |-> [name |-> name]]

\* a GeoJSON feature that is no polyline
MultiPointFeature ==
    [geometry   |-> [type |-> "MultiPoint", coordinates |-> << <<Lng0, 40>> >>],
     properties |-> [name |-> "Springs"]]

\* the feature collection that holds the polylines of net, in order
Collection(net) ==
    [features |->
        [k \in 1..Len(net) |->
            LineStringFeature(net[k].name,
                [i \in 1..Len(net[k].coordinates) |-> net[k].coordinates[i].lat])]]

\* feature.geometry?.type !== "LineString"
IsLineString(feature) ==
    Has(feature, "geometry") /\ feature.geometry.type = "LineString"

\* feature.properties?.name || "Unnamed Route"
FeatureName(feature) ==
    IF Has(feature, "properties") /\ Has(feature.properties, "name")
    THEN feature.properties.name
    ELSE "Unnamed Route"

\* feature.geometry.coordinates.map(coord => ({lat: coord[1], lng: coord[0]}))
FeatureCoordinates(feature) ==
    [i \in 1..Len(feature.geometry.coordinates) |->
        [lat |-> feature.geometry.coordinates[i][2],
         lng |-> feature.geometry.coordinates[i][1]]]

\* feature.geometry.coordinates.map(coord => coord[2] || 0)
FeatureElevations(feature) ==
    [i \in 1..Len(feature.geometry.coordinates) |->
        IF Len(feature.geometry.coordinates[i]) >= 3
        THEN feature.geometry.coordinates[i][3]
        ELSE 0]

\* this.segments.set(name, seg): a name the Map holds keeps its place
SegmentsSet(segs, seg) ==
    IF seg.name \in {segs[i].name : i \in 1..Len(segs)}
    THEN [i \in 1..Len(segs) |-> IF segs[i].name = seg.name THEN seg ELSE segs[i]]
    ELSE Append(segs, seg)

RECURSIVE LoadFeatures(_, _, _)
\* the forEach of load from feature i on; segs is this.segments so far
LoadFeatures(features, i, segs) ==
    IF i > Len(features) THEN segs
    ELSE IF ~IsLineString(features[i]) THEN LoadFeatures(features, i + 1, segs)
    ELSE LoadFeatures(features, i + 1,
             SegmentsSet(segs, [name        |-> FeatureName(features[i]),
                                coordinates |-> FeatureCoordinates(features[i]),
                                elevations  |-> FeatureElevations(features[i])]))

-----------------------------------------------------------------------------
(* load: metrics and connectivity graphs *)

RECURSIVE PolylineLength(_, _)
\* the distance loop of _preCalculateMetrics, from edge i on
PolylineLength(coords, i) ==
    IF i >= Len(coords) THEN 0
    ELSE _getDistance(coords[i], coords[i + 1]) + PolylineLength(coords, i + 1)

\* Elevations are whole metres.  A smoothed elevation is the mean of up to
\* Len(coords) of them, so it is written as a whole number of parts of a
\* metre, ElevationScale(n) parts to the metre for a polyline of n points.
RECURSIVE ElevationScale(_)
ElevationScale(n) == IF n <= 1 THEN 1 ELSE n * ElevationScale(n - 1)

RECURSIVE WindowStart(_, _, _, _, _)
\* the first while loop of _distanceWindowSmoothing at index i (zero-based):
\* returns <<start, accumulated>>
WindowStart(coords, elevations, i, start, accumulated) ==
    IF start + 1 < i /\ _getDistance(coords[start + 1], coords[i + 1]) > 100
    THEN WindowStart(coords, elevations, i, start + 1,
                     accumulated - elevations[start + 1])
    ELSE <<start, accumulated>>

RECURSIVE WindowEnd(_, _, _, _, _)
\* the second while loop of _distanceWindowSmoothing at index i:
\* returns <<end, accumulated>>
WindowEnd(coords, elevations, i, end, accumulated) ==
    IF end < Len(coords) /\ _getDistance(coords[i + 1], coords[end + 1]) <= 100
    THEN WindowEnd(coords, elevations, i, end + 1, accumulated + elevations[end + 1])
    ELSE <<end, accumulated>>

RECURSIVE WindowLoop(_, _, _, _, _, _, _)
\* the for loop of _distanceWindowSmoothing from index i on; result[i] is
\* accumulated / (end - start), in parts of a metre
WindowLoop(coords, elevations, i, start, end, accumulated, result) ==
    IF i >= Len(coords) THEN result
    ELSE LET s == WindowStart(coords, elevations, i, start, accumulated)
             e == WindowEnd(coords, elevations, i, end, s[2])
         IN  WindowLoop(coords, elevations, i + 1, s[1], e[1], e[2],
                        Append(result,
                               (e[2] * ElevationScale(Len(coords))) \div (e[1] - s[1])))

_distanceWindowSmoothing(coords, elevations) ==
    WindowLoop(coords, elevations, 0, 0, 0, 0, <<>>)

\* the smoothed elevations of a polyline, in parts of a metre; load gives
\* every coordinate an elevation, and the two ends keep theirs
_smoothElevations(coords, elevations) ==
    IF Len(coords) = 0 THEN <<>>
    ELSE [i \in 1..Len(coords) |->
             IF i = 1 \/ i = Len(coords)
             THEN elevations[i] * ElevationScale(Len(coords))
             ELSE _distanceWindowSmoothing(coords, elevations)[i]]

RECURSIVE ElevationSum(_, _, _, _)
\* the elevation loop of _preCalculateMetrics from edge i on: the sum of
\* the rises (sign = 1) or of the falls (sign = -1) of one metre or more
ElevationSum(smoothed, scale, sign, i) ==
    IF i >= Len(smoothed) THEN 0
    ELSE (IF Abs(smoothed[i + 1] - smoothed[i]) >= scale
             /\ sign * (smoothed[i + 1] - smoothed[i]) > 0
          THEN Abs(smoothed[i + 1] - smoothed[i]) ELSE 0)
         + ElevationSum(smoothed, scale, sign, i + 1)

\* Math.round of parts / scale, parts >= 0
RoundParts(parts, scale) == (2 * parts + scale) \div (2 * scale)

\* the elevation fields of a segment's metrics
ElevationMetrics(smoothed, scale) ==
    [forward |-> [elevationGain |-> RoundParts(ElevationSum(smoothed, scale, 1, 1), scale),
                  elevationLoss |-> RoundParts(ElevationSum(smoothed, scale, -1, 1), scale)],
     reverse |-> [elevationGain |-> RoundParts(ElevationSum(smoothed, scale, -1, 1), scale),
                  elevationLoss |-> RoundParts(ElevationSum(smoothed, scale, 1, 1), scale)]]

\* one entry of this.segmentMetrics
SegmentMetrics(seg) ==
    [distance   |-> PolylineLength(seg.coordinates, 1),
     startPoint |-> seg.coordinates[1],
     endPoint   |-> seg.coordinates[Len(seg.coordinates)],
     forward    |-> ElevationMetrics(_smoothElevations(seg.coordinates, seg.elevations),
                                     ElevationScale(Len(seg.coordinates))).forward,
     reverse    |-> ElevationMetrics(_smoothElevations(seg.coordinates, seg.elevations),
                                     ElevationScale(Len(seg.coordinates))).reverse]

_preCalculateMetrics(segs) ==
    [name \in SegmentNames(segs) |-> SegmentMetrics(SegmentsGet(segs, name))]

\* connected only where the first segment ends and the second one starts
_areSegmentsConnected_endToStart(segment1, segment2, threshold) ==
    /\ Len(segment1.coordinates) # 0
    /\ Len(segment2.coordinates) # 0
    /\ _getDistance(segment1.coordinates[Len(segment1.coordinates)],
                    segment2.coordinates[1]) <= threshold

_areSegmentsConnected(segment1, segment2, threshold) ==
    LET coords1 == segment1.coordinates
        coords2 == segment2.coordinates
    IN  /\ Len(coords1) # 0
        /\ Len(coords2) # 0
        /\ \E point1 \in {coords1[1], coords1[Len(coords1)]} :
           \E point2 \in {coords2[1], coords2[Len(coords2)]} :
                _getDistance(point1, point2) <= threshold

RECURSIVE ConnectedNames(_, _, _)
\* the names pushed onto adjacencyMap[segs[k].name], in the order the
\* nested i < j loops push them: ascending index of the other segment
ConnectedNames(segs, k, m) ==
    IF m > Len(segs) THEN <<>>
    ELSE (IF m # k /\ _areSegmentsConnected(segs[k], segs[m], connectionThreshold)
          THEN <<segs[m].name>> ELSE <<>>)
         \o ConnectedNames(segs, k, m + 1)

_buildAdjacencyMap(segs) ==
    [name \in SegmentNames(segs) |->
        ConnectedNames(segs, CHOOSE i \in 1..Len(segs) : segs[i].name = name, 1)]

\* a node of the endpoint graph: "<segment>|S" or "<segment>|E"
Node(name, key) == <<name, key>>

EndCoord(seg, key) ==
    IF key = "S" THEN seg.coordinates[1] ELSE seg.coordinates[Len(seg.coordinates)]

\* a junction edge for endpoints at the very same point only
JunctionEdge_touching(seg, key, other, otherKey) ==
    IF _getDistance(EndCoord(seg, key), EndCoord(other, otherKey)) = 0
    THEN << [to |-> Node(other.name, otherKey), weight |-> 0] >>
    ELSE <<>>

JunctionEdge(seg, key, other, otherKey) ==
    IF _getDistance(EndCoord(seg, key), EndCoord(other, otherKey)) <= connectionThreshold
    THEN << [to |-> Node(other.name, otherKey), weight |-> 0] >>
    ELSE <<>>

RECURSIVE JunctionEdges(_, _, _, _)
\* the zero-weight edges pushed onto node segs[k]|key, in push order
JunctionEdges(segs, k, key, m) ==
    IF m > Len(segs) THEN <<>>
    ELSE (IF m = k THEN <<>>
          ELSE JunctionEdge(segs[k], key, segs[m], "S")
               \o JunctionEdge(segs[k], key, segs[m], "E"))
         \o JunctionEdges(segs, k, key, m + 1)

OtherKey(key) == IF key = "S" THEN "E" ELSE "S"

\* an entry whose traverse edge costs nothing
GraphEntry_unweighted(segs, metrics, k, key) ==
    [node  |-> Node(segs[k].name, key),
     edges |-> << [to |-> Node(segs[k].name, OtherKey(key)), weight |-> 0,
                   segment |-> segs[k].name] >>
               \o JunctionEdges(segs, k, key, 1)]

\* one entry of the endpointGraph Map: the traverse edge, then the junctions
GraphEntry(segs, metrics, k, key) ==
    LET name == segs[k].name
        w == IF name \in DOMAIN metrics THEN metrics[name].distance ELSE 0
    IN  [node  |-> Node(name, key),
         edges |-> << [to |-> Node(name, OtherKey(key)), weight |-> w, segment |-> name] >>
                   \o JunctionEdges(segs, k, key, 1)]

_buildEndpointGraph(segs, metrics) ==
    [n \in 1..(2 * Len(segs)) |->
        GraphEntry(segs, metrics, (n + 1) \div 2, IF n % 2 = 1 THEN "S" ELSE "E")]

\* this.endpointGraph.keys()
GraphNodes == [n \in 1..Len(endpointGraph) |-> endpointGraph[n].node]

\* this.endpointGraph.get(u) || []
GraphEdges(u) ==
    IF \E n \in 1..Len(endpointGraph) : endpointGraph[n].node = u
    THEN endpointGraph[CHOOSE n \in 1..Len(endpointGraph) : endpointGraph[n].node = u].edges
    ELSE <<>>

-----------------------------------------------------------------------------
(* PointSnapper *)

RECURSIVE SnapScan(_, _, _, _)
\* the two nested loops of _snapToNearestSegment from segment s, edge i on;
\* best is {minDistance, closestSegment, closestPoint}
SnapScan(point, s, i, best) ==
    IF s > Len(segments) THEN best
    ELSE
      LET coords == segments[s].coordinates
      IN  IF i >= Len(coords) THEN SnapScan(point, s + 1, 1, best)
          ELSE
            LET pointOnSegment ==
                    _getClosestPointOnLineSegment(point, coords[i], coords[i + 1])
                distance == _getDistance(point, pointOnSegment)
            IN  IF distance < snapThreshold /\ distance < best.minDistance
                THEN SnapScan(point, s, i + 1,
                              [minDistance    |-> distance,
                               closestSegment |-> segments[s].name,
                               closestPoint   |-> pointOnSegment])
                ELSE SnapScan(point, s, i + 1, best)

\* returns {lat, lng, segmentName}, or Undefined for null
_snapToNearestSegment(point) ==
    LET best == SnapScan(point, 1, 1, [minDistance |-> Infinity])
    IN  IF Has(best, "closestPoint")
        THEN [lat |-> best.closestPoint.lat, lng |-> best.closestPoint.lng,
              segmentName |-> best.closestSegment]
        ELSE Undefined

Snaps(point) == Has(_snapToNearestSegment(point), "segmentName")

findClosestSegment(point) ==
    LET snapped == _snapToNearestSegment(point)
    IN  IF Has(snapped, "segmentName") THEN snapped.segmentName ELSE "null"

-----------------------------------------------------------------------------
(* CoordinateOrderer *)

\* distances.indexOf(Math.min(...distances)), zero-based
IndexOfMin(distances) ==
    LET m == CHOOSE d \in {distances[i] : i \in 1..Len(distances)} :
                 \A j \in 1..Len(distances) : d <= distances[j]
    IN  (CHOOSE i \in 1..Len(distances) :
            /\ distances[i] = m
            /\ \A j \in 1..(i - 1) : distances[j] # m) - 1

\* an orientation that lays every segment out as stored
_orientSegmentForConnection_asStored(coords, nextCoords, isFirst, lastPoint) == coords

\* nextCoords = <<>> stands for null (the store holds no empty polyline);
\* lastPoint = Undefined stands for null or undefined
_orientSegmentForConnection(coords, nextCoords, isFirst, lastPoint) ==
    IF isFirst /\ nextCoords # <<>>
    THEN LET firstStart == coords[1]
             firstEnd   == coords[Len(coords)]
             nextStart  == nextCoords[1]
             nextEnd    == nextCoords[Len(nextCoords)]
             distances  == << _getDistance(firstEnd, nextStart),
                              _getDistance(firstEnd, nextEnd),
                              _getDistance(firstStart, nextStart),
                              _getDistance(firstStart, nextEnd) >>
             minIndex   == IndexOfMin(distances)
         IN  IF minIndex = 2 \/ minIndex = 3 THEN Reverse(coords) ELSE coords
    ELSE IF ~Has(lastPoint, "undefined")
    THEN LET distanceToStart == _getDistance(lastPoint, coords[1])
             distanceToEnd   == _getDistance(lastPoint, coords[Len(coords)])
         IN  IF distanceToEnd < distanceToStart THEN Reverse(coords) ELSE coords
    ELSE coords

RECURSIVE OrderLoop_keepAll(_, _, _)
\* an orderer that appends every coordinate of every segment
OrderLoop_keepAll(segs, i, orderedCoords) ==
    IF i > Len(segs) THEN orderedCoords
    ELSE IF ~HasSegment(segs[i]) THEN OrderLoop_keepAll(segs, i + 1, orderedCoords)
    ELSE IF i = 1
    THEN OrderLoop_keepAll(segs, i + 1,
             IF Len(segs) > 1 /\ HasSegment(segs[2])
             THEN _orientSegmentForConnection(Coordinates(segs[1]),
                                              Coordinates(segs[2]), TRUE, Undefined)
             ELSE Coordinates(segs[1]))
    ELSE OrderLoop_keepAll(segs, i + 1,
             orderedCoords
               \o _orientSegmentForConnection(Coordinates(segs[i]), <<>>, FALSE,
                      IF orderedCoords = <<>> THEN Undefined ELSE Last(orderedCoords)))

RECURSIVE OrderLoop(_, _, _)
\* the loop of _getOrderedCoordinatesForSegments from (one-based) index i on
OrderLoop(segs, i, orderedCoords) ==
    IF i > Len(segs) THEN orderedCoords
    ELSE IF ~HasSegment(segs[i]) THEN OrderLoop(segs, i + 1, orderedCoords)
    ELSE IF i = 1
    THEN LET coords ==
                 IF Len(segs) > 1 /\ HasSegment(segs[2])
                 THEN _orientSegmentForConnection(Coordinates(segs[1]),
                                                  Coordinates(segs[2]), TRUE, Undefined)
                 ELSE Coordinates(segs[1])
         IN  OrderLoop(segs, i + 1, coords)
    ELSE LET lastPoint == IF orderedCoords = <<>> THEN Undefined
                          ELSE orderedCoords[Len(orderedCoords)]
             coords == _orientSegmentForConnection(Coordinates(segs[i]), <<>>,
                                                   FALSE, lastPoint)
             connectionDistance == _getDistance(lastPoint, coords[1])
         IN  IF connectionDistance <= 50
             THEN OrderLoop(segs, i + 1, orderedCoords \o Tail(coords))
             ELSE OrderLoop(segs, i + 1, orderedCoords \o coords)

_getOrderedCoordinatesForSegments(segs) ==
    IF Len(segs) = 0 THEN <<>> ELSE OrderLoop(segs, 1, <<>>)

\* an endpoint read off the stored polyline of the last segment, whatever
\* the direction the route runs through it
_getCurrentRouteEndpoint_stored(segs) ==
    IF Len(segs) = 0 \/ ~HasSegment(Last(segs)) THEN Undefined
    ELSE Last(Coordinates(Last(segs)))

\* returns the route's trailing coordinate, or Undefined for null
_getCurrentRouteEndpoint(segs) ==
    IF Len(segs) = 0 THEN Undefined
    ELSE LET orderedCoords == _getOrderedCoordinatesForSegments(segs)
         IN  IF Len(orderedCoords) > 0 THEN orderedCoords[Len(orderedCoords)]
             ELSE Undefined

-----------------------------------------------------------------------------
(* ContinuityChecker *)

Continuous == [isContinuous |-> TRUE, brokenSegmentIndex |-> -1]

Broken(i) == [isContinuous |-> FALSE, brokenSegmentIndex |-> i]

RECURSIVE ContinuityLoop(_, _, _, _)
\* the loop of checkSegmentsContinuity; i and coordIndex are zero-based as
\* in the source, orderedCoords is one-based
ContinuityLoop(segs, orderedCoords, i, coordIndex) ==
    IF i >= Len(segs) - 1 THEN Continuous
    ELSE IF ~HasSegment(segs[i + 1]) \/ ~HasSegment(segs[i + 2])
    THEN ContinuityLoop(segs, orderedCoords, i + 1, coordIndex)
    ELSE
      LET currentSegmentLength   == Len(Coordinates(segs[i + 1]))
          currentSegmentEndIndex == coordIndex + currentSegmentLength - 1
      IN  IF currentSegmentEndIndex >= Len(orderedCoords) - 1 THEN Broken(i)
          ELSE
            LET currentEnd == orderedCoords[currentSegmentEndIndex + 1]
                nextStart  == orderedCoords[currentSegmentEndIndex + 2]
                distance   == _getDistance(currentEnd, nextStart)
            IN  IF distance > tolerance THEN Broken(i)
                ELSE ContinuityLoop(segs, orderedCoords, i + 1,
                        IF distance <= 50
                        THEN coordIndex + currentSegmentLength - 1
                        ELSE coordIndex + currentSegmentLength)

checkSegmentsContinuity(segs) ==
    IF Len(segs) <= 1 THEN Continuous
    ELSE LET orderedCoords == _getOrderedCoordinatesForSegments(segs)
         IN  IF Len(orderedCoords) = 0 THEN Continuous
             ELSE ContinuityLoop(segs, orderedCoords, 0, 0)

-----------------------------------------------------------------------------
(* ShortestPathSearch *)

\* let u = null
NoNode == <<>>

RECURSIVE PickNode(_, _, _, _, _, _)
\* the selection loop of _dijkstraPath: the first unvisited node, in key
\* order, of smallest dist below Infinity; NoNode for null
PickNode(nodes, dist, visited, n, u, best) ==
    IF n > Len(nodes) THEN u
    ELSE IF nodes[n] \notin visited /\ dist[nodes[n]] < best
    THEN PickNode(nodes, dist, visited, n + 1, nodes[n], dist[nodes[n]])
    ELSE PickNode(nodes, dist, visited, n + 1, u, best)

RECURSIVE Relax_first(_, _, _, _, _)
\* an edge loop that keeps the first distance found for a node
Relax_first(u, edges, e, visited, st) ==
    IF e > Len(edges) THEN st
    ELSE IF edges[e].to \notin visited /\ st.dist[edges[e].to] = Infinity
    THEN Relax_first(u, edges, e + 1, visited,
             [dist |-> [st.dist EXCEPT ![edges[e].to] = st.dist[u] + edges[e].weight],
              prev |-> [x \in DOMAIN st.prev \cup {edges[e].to} |->
                           IF x = edges[e].to THEN u ELSE st.prev[x]]])
    ELSE Relax_first(u, edges, e + 1, visited, st)

RECURSIVE Relax(_, _, _, _, _)
\* the edge loop of _dijkstraPath for node u, from edge e on;
\* st is {dist, prev}
Relax(u, edges, e, visited, st) ==
    IF e > Len(edges) THEN st
    ELSE LET to  == edges[e].to
             alt == st.dist[u] + edges[e].weight
         IN  IF to \notin visited /\ alt < st.dist[to]
             THEN Relax(u, edges, e + 1, visited,
                        [dist |-> [st.dist EXCEPT ![to] = alt],
                         prev |-> [x \in DOMAIN st.prev \cup {to} |->
                                      IF x = to THEN u ELSE st.prev[x]]])
             ELSE Relax(u, edges, e + 1, visited, st)

RECURSIVE DijkstraLoop(_, _, _, _)

\* one turn of the while loop of _dijkstraPath once u is picked
Visit(nodes, dstNode, visited, st, u) ==
    IF u = NoNode \/ u = dstNode THEN st.prev
    ELSE DijkstraLoop(nodes, dstNode, visited \cup {u},
                      Relax(u, GraphEdges(u), 1, visited \cup {u}, st))

\* the while loop of _dijkstraPath; returns prev
DijkstraLoop(nodes, dstNode, visited, st) ==
    IF Cardinality(visited) >= Len(nodes) THEN st.prev
    ELSE Visit(nodes, dstNode, visited, st,
               PickNode(nodes, st.dist, visited, 1, NoNode, Infinity))

\* the locals of _dijkstraPath on return
SearchDone(srcNode, dstNode, path) ==
    [pc |-> "done", srcNode |-> srcNode, dstNode |-> dstNode, path |-> path]

\* _dijkstraPath between the while loop and the predecessor walk
AfterLoop(s) ==
    IF s.dstNode \notin DOMAIN s.st.prev /\ s.srcNode # s.dstNode
    THEN SearchDone(s.srcNode, s.dstNode, <<>>)
    ELSE [pc |-> "walk", srcNode |-> s.srcNode, dstNode |-> s.dstNode,
          prev |-> s.st.prev, curr |-> s.dstNode, path |-> <<s.dstNode>>]

\* one turn of the while loop without visited.add(u)
LoopTurn_noVisit(s, u) ==
    IF Cardinality(s.visited) >= Len(GraphNodes) \/ u = NoNode \/ u = s.dstNode
    THEN AfterLoop(s)
    ELSE [s EXCEPT !.st = Relax(u, GraphEdges(u), 1, s.visited, s.st)]

\* one turn of the while loop of _dijkstraPath, u being the node picked
LoopTurn(s, u) ==
    IF Cardinality(s.visited) >= Len(GraphNodes) \/ u = NoNode \/ u = s.dstNode
    THEN AfterLoop(s)
    ELSE [s EXCEPT !.visited = @ \cup {u},
                   !.st = Relax(u, GraphEdges(u), 1, s.visited \cup {u}, s.st)]

\* one turn of the predecessor walk of _dijkstraPath
WalkTurn(s) ==
    IF s.curr \in DOMAIN s.prev
    THEN [s EXCEPT !.curr = s.prev[s.curr], !.path = <<s.prev[s.curr]>> \o @]
    ELSE SearchDone(s.srcNode, s.dstNode, s.path)

RECURSIVE Reconstruct(_, _, _)
\* the predecessor walk of _dijkstraPath
Reconstruct(prev, curr, path) ==
    IF curr \in DOMAIN prev
    THEN Reconstruct(prev, prev[curr], <<prev[curr]>> \o path)
    ELSE path

\* the end of _dijkstraPath: no path when the walk never reached dstNode
PathFromPrev(prev, srcNode, dstNode) ==
    IF dstNode \notin DOMAIN prev /\ srcNode # dstNode THEN <<>>
    ELSE Reconstruct(prev, dstNode, <<dstNode>>)

_dijkstraPath(srcNode, dstNode) ==
    LET nodes == GraphNodes
    IN  IF ~Includes(nodes, srcNode) \/ ~Includes(nodes, dstNode) THEN <<>>
        ELSE PathFromPrev(
                 DijkstraLoop(nodes, dstNode, {},
                     [dist |-> [n \in {nodes[i] : i \in 1..Len(nodes)} |->
                                   IF n = srcNode THEN 0 ELSE Infinity],
                      prev |-> <<>>]),
                 srcNode, dstNode)

RECURSIVE PathWeightFrom(_, _)
PathWeightFrom(nodePath, i) ==
    IF i >= Len(nodePath) THEN 0
    ELSE LET edges == GraphEdges(nodePath[i])
             w == IF \E e \in 1..Len(edges) : edges[e].to = nodePath[i + 1]
                  THEN edges[CHOOSE e \in 1..Len(edges) :
                                 /\ edges[e].to = nodePath[i + 1]
                                 /\ \A f \in 1..(e - 1) : edges[f].to # nodePath[i + 1]].weight
                  ELSE Infinity
         IN  Min2(Infinity, w + PathWeightFrom(nodePath, i + 1))

_pathWeight(nodePath) ==
    IF Len(nodePath) < 2 THEN Infinity ELSE PathWeightFrom(nodePath, 1)

RECURSIVE NodesToSegments(_, _, _)
\* the loop of _nodesPathToSegments
NodesToSegments(nodePath, i, segs) ==
    IF i >= Len(nodePath) THEN segs
    ELSE LET segA == nodePath[i][1]
             endA == nodePath[i][2]
             segB == nodePath[i + 1][1]
             endB == nodePath[i + 1][2]
         IN  IF segA = segB /\ endA # endB
                /\ (Len(segs) = 0 \/ segs[Len(segs)] # segA)
             THEN NodesToSegments(nodePath, i + 1, Append(segs, segA))
             ELSE NodesToSegments(nodePath, i + 1, segs)

_nodesPathToSegments(nodePath) ==
    IF Len(nodePath) < 2 THEN <<>> ELSE NodesToSegments(nodePath, 1, <<>>)

\* returns the endpoint's coordinate, or Undefined for null
_getEndpointCoords(segmentName, key) ==
    IF ~HasSegment(segmentName) THEN Undefined
    ELSE EndCoord(SegmentsGet(segments, segmentName), key)

_nearestEndpointKeyToPoint(segmentName, point) ==
    LET dS == _getDistance(point, _getEndpointCoords(segmentName, "S"))
        dE == _getDistance(point, _getEndpointCoords(segmentName, "E"))
    IN  IF dS <= dE THEN "S" ELSE "E"

\* a search without the fallback: no node path, no segments
SegmentsOrFallback_none(nodePath, startSegmentName, endSegmentName) ==
    _nodesPathToSegments(nodePath)

\* the degenerate fallback of _findShortestSegmentPath: the two segments
\* side by side when the graph has no path
SegmentsOrFallback(nodePath, startSegmentName, endSegmentName) ==
    IF Len(nodePath) = 0
    THEN <<startSegmentName, endSegmentName>>
    ELSE _nodesPathToSegments(nodePath)

\* the lighter of the paths to the two ends of the target
LighterPath(pathToS, pathToE) ==
    IF _pathWeight(pathToS) <= _pathWeight(pathToE) THEN pathToS ELSE pathToE

\* options is {routeEndpointPoint, targetEntryPoint}; either may be Undefined
_findShortestSegmentPath(startSegmentName, endSegmentName, options) ==
    IF startSegmentName = endSegmentName THEN <<startSegmentName>>
    ELSE
      LET startNode ==
              IF ~Has(options.routeEndpointPoint, "undefined")
              THEN Node(startSegmentName,
                        _nearestEndpointKeyToPoint(startSegmentName,
                                                   options.routeEndpointPoint))
              ELSE Node(startSegmentName, "E")
      IN  IF ~Has(options.targetEntryPoint, "undefined")
          THEN SegmentsOrFallback(
                   _dijkstraPath(startNode,
                       Node(endSegmentName,
                            _nearestEndpointKeyToPoint(endSegmentName,
                                                       options.targetEntryPoint))),
                   startSegmentName, endSegmentName)
          ELSE _nodesPathToSegments(
                   LighterPath(_dijkstraPath(startNode, Node(endSegmentName, "S")),
                               _dijkstraPath(startNode, Node(endSegmentName, "E"))))

\* returns the segment's name, or "null" for null
_findSegmentForPoint(point) ==
    IF HasSegmentName(point) THEN point.segmentName
    ELSE findClosestSegment(point)

\* _findPathBetweenPoints once the two segments are found
PathBetweenSegments(startPoint, endPoint, startSegment, endSegment) ==
    IF startSegment = "null" \/ endSegment = "null" THEN <<>>
    ELSE IF startSegment = endSegment THEN <<startSegment>>
    ELSE _findShortestSegmentPath(startSegment, endSegment,
             [routeEndpointPoint |->
                  _getEndpointCoords(startSegment,
                      _nearestEndpointKeyToPoint(startSegment, startPoint)),
              targetEntryPoint |->
                  _getEndpointCoords(endSegment,
                      _nearestEndpointKeyToPoint(endSegment, endPoint))])

\* a search that leaves from the last segment of the route when there is
\* a route
_findPathBetweenPoints_fromRoute(startPoint, endPoint) ==
    PathBetweenSegments(startPoint, endPoint,
                        IF Len(selectedSegments) = 0
                        THEN _findSegmentForPoint(startPoint)
                        ELSE Last(selectedSegments),
                        _findSegmentForPoint(endPoint))

_findPathBetweenPoints(startPoint, endPoint) ==
    PathBetweenSegments(startPoint, endPoint,
                        _findSegmentForPoint(startPoint),
                        _findSegmentForPoint(endPoint))

\* a path handed on as the search returned it
EndAtTarget_asFound(path, targetSegmentName) == path

\* the end of _findPathToSegmentEntryPoint: the path ends at the target
EndAtTarget(path, targetSegmentName) ==
    IF Len(path) > 0 /\ path[Len(path)] # targetSegmentName
    THEN Append(path, targetSegmentName)
    ELSE path

_findPathToSegmentEntryPoint(startSegmentName, targetSegmentName, targetEntryPoint, routeEndpoint) ==
    IF ~HasSegment(startSegmentName) \/ ~HasSegment(targetSegmentName) THEN <<>>
    ELSE EndAtTarget(
             _findShortestSegmentPath(startSegmentName, targetSegmentName,
                 [routeEndpointPoint |->
                      IF ~Has(routeEndpoint, "undefined") THEN routeEndpoint
                      ELSE Last(Coordinates(startSegmentName)),
                  targetEntryPoint   |-> targetEntryPoint]),
             targetSegmentName)

-----------------------------------------------------------------------------
(* RouteExtensionEngine *)

\* the rule without its cases: the waypoint's segment is always appended
_findRouteExtensionToPoint_append(targetPoint, currentRouteSegments) ==
    IF ~HasSegmentName(targetPoint) THEN <<>>
    ELSE <<targetPoint.segmentName>>

\* an extension that keeps a leading L even when S has one element
ExtensionFromPath_keepLeading(path, currentRouteSegments, closestSegmentToPoint) ==
    IF Len(path) = 0 THEN <<closestSegmentToPoint>> ELSE path

\* the end of _findRouteExtensionToPoint for a segment that is not
\* adjacent: what the path found adds to the route
ExtensionFromPath(path, currentRouteSegments, closestSegmentToPoint) ==
    IF Len(path) = 0 THEN <<closestSegmentToPoint>>
    ELSE IF Len(currentRouteSegments) = 1 /\ path[1] = currentRouteSegments[1]
    THEN Tail(path)
    ELSE path

\* _findRouteExtensionToPoint from the point where the route's endpoint is
\* known
ExtensionFromEndpoint(targetPoint, currentRouteSegments, routeEndpoint) ==
    LET closestSegmentToPoint == targetPoint.segmentName
        lastSegmentOfRoute == currentRouteSegments[Len(currentRouteSegments)]
        connectionsFromLastSegment ==
            IF lastSegmentOfRoute \in DOMAIN adjacencyMap
            THEN adjacencyMap[lastSegmentOfRoute] ELSE <<>>
    IN  IF Has(routeEndpoint, "undefined") THEN <<closestSegmentToPoint>>
        ELSE IF Includes(connectionsFromLastSegment, closestSegmentToPoint)
        THEN
          IF Len(currentRouteSegments) = 1 THEN <<closestSegmentToPoint>>
          ELSE IF ~HasSegment(closestSegmentToPoint)
          THEN <<closestSegmentToPoint>>
          ELSE
            LET targetCoords == Coordinates(closestSegmentToPoint)
                distanceToTargetStart ==
                    _getDistance(routeEndpoint, targetCoords[1])
                distanceToTargetEnd ==
                    _getDistance(routeEndpoint, targetCoords[Len(targetCoords)])
            IN  IF Min2(distanceToTargetStart, distanceToTargetEnd)
                      <= connectionThreshold
                THEN <<closestSegmentToPoint>>
                ELSE <<lastSegmentOfRoute, closestSegmentToPoint>>
        ELSE
          IF ~HasSegment(closestSegmentToPoint) THEN <<closestSegmentToPoint>>
          ELSE ExtensionFromPath(
                   _findPathToSegmentEntryPoint(
                       lastSegmentOfRoute, closestSegmentToPoint,
                       [lat |-> targetPoint.lat, lng |-> targetPoint.lng],
                       routeEndpoint),
                   currentRouteSegments, closestSegmentToPoint)

\* a rule that takes the first segment to end where its stored polyline
\* ends: an adjacent segment that does not start or end there is reached
\* by going back through the first segment
_findRouteExtensionToPoint_reversing(targetPoint, currentRouteSegments) ==
    IF ~HasSegmentName(targetPoint) THEN <<>>
    ELSE IF Len(currentRouteSegments) = 0 THEN <<targetPoint.segmentName>>
    ELSE IF currentRouteSegments[Len(currentRouteSegments)] = targetPoint.segmentName
    THEN <<>>
    ELSE IF /\ Len(currentRouteSegments) = 1
            /\ currentRouteSegments[1] \in DOMAIN adjacencyMap
            /\ Includes(adjacencyMap[currentRouteSegments[1]], targetPoint.segmentName)
            /\ \A key \in {"S", "E"} :
                  _getDistance(_getCurrentRouteEndpoint(currentRouteSegments),
                               _getEndpointCoords(targetPoint.segmentName, key))
                     > connectionThreshold
    THEN <<currentRouteSegments[1], targetPoint.segmentName>>
    ELSE ExtensionFromEndpoint(targetPoint, currentRouteSegments,
                               _getCurrentRouteEndpoint(currentRouteSegments))

_findRouteExtensionToPoint(targetPoint, currentRouteSegments) ==
    IF ~HasSegmentName(targetPoint) THEN <<>>
    ELSE IF Len(currentRouteSegments) = 0 THEN <<targetPoint.segmentName>>
    ELSE IF currentRouteSegments[Len(currentRouteSegments)] = targetPoint.segmentName
    THEN <<>>
    ELSE ExtensionFromEndpoint(targetPoint, currentRouteSegments,
                               _getCurrentRouteEndpoint(currentRouteSegments))

RECURSIVE ExtendLoop(_, _, _)
\* the loop of _findOptimalRouteThroughPoints from (one-based) index i on
ExtendLoop(validPoints, i, allSegments) ==
    IF i > Len(validPoints) THEN allSegments
    ELSE IF i = 1
    THEN ExtendLoop(validPoints, i + 1,
                    IF HasSegmentName(validPoints[1])
                    THEN Append(allSegments, validPoints[1].segmentName)
                    ELSE allSegments)
    ELSE ExtendLoop(validPoints, i + 1,
                    allSegments \o _findRouteExtensionToPoint(validPoints[i], allSegments))

_findOptimalRouteThroughPoints(points) ==
    IF Len(points) = 0 THEN <<>>
    ELSE
      LET validPoints == SelectSeq(points, ValidPoint)
      IN  IF Len(validPoints) = 0 THEN <<>>
          ELSE IF Len(validPoints) = 1
          THEN (IF HasSegmentName(validPoints[1])
                THEN <<validPoints[1].segmentName>> ELSE <<>>)
          ELSE ExtendLoop(validPoints, 1, <<>>)

\* the selection _recalculateRoute writes once this.routePoints is filtered
RecalculatedSegments(filtered) ==
    IF Len(filtered) = 0 THEN <<>>
    ELSE IF Len(filtered) = 1
    THEN (IF HasSegmentName(filtered[1])
          THEN <<filtered[1].segmentName>> ELSE <<>>)
    ELSE _findOptimalRouteThroughPoints(filtered)

\* _recalculateRoute run with this.routePoints = points: it filters the
\* waypoints and writes the selection
_recalculateRoute(points) ==
    /\ routePoints' = SelectSeq(points, ValidPoint)
    /\ selectedSegments' = RecalculatedSegments(routePoints')

-----------------------------------------------------------------------------
(* getRouteInfo *)

RECURSIVE TotalDistanceFrom(_, _)
\* the loop of _calculateTotalDistance from (one-based) entry i on
TotalDistanceFrom(segs, i) ==
    IF i > Len(segs) THEN 0
    ELSE (IF segs[i] \in DOMAIN segmentMetrics
          THEN segmentMetrics[segs[i]].distance ELSE 0)
         + TotalDistanceFrom(segs, i + 1)

\* a total in which a segment that occurs several times counts once
_calculateTotalDistance_distinct ==
    TotalDistanceFrom(
        SelectSeq([i \in 1..Len(selectedSegments) |->
                      IF \E j \in 1..(i - 1) : selectedSegments[j] = selectedSegments[i]
                      THEN "" ELSE selectedSegments[i]],
                  LAMBDA name : name # ""),
        1)

_calculateTotalDistance == TotalDistanceFrom(selectedSegments, 1)

_getOrderedCoordinates == _getOrderedCoordinatesForSegments(selectedSegments)

\* isReversed of _calculateElevationChanges for entry i (one-based) of segs
IsReversed(segs, i) ==
    /\ i > 1
    /\ segs[i - 1] \in DOMAIN segmentMetrics
    /\ _getDistance(segmentMetrics[segs[i - 1]].endPoint, segmentMetrics[segs[i]].endPoint)
          < _getDistance(segmentMetrics[segs[i - 1]].endPoint,
                         segmentMetrics[segs[i]].startPoint)

RECURSIVE ElevationChangesFrom(_, _, _)
\* the loop of _calculateElevationChanges from entry i on; total is
\* {gain, loss}
ElevationChangesFrom(segs, i, total) ==
    IF i > Len(segs) THEN total
    ELSE IF segs[i] \notin DOMAIN segmentMetrics
    THEN ElevationChangesFrom(segs, i + 1, total)
    ELSE IF IsReversed(segs, i)
    THEN ElevationChangesFrom(segs, i + 1,
             [gain |-> total.gain + segmentMetrics[segs[i]].reverse.elevationGain,
              loss |-> total.loss + segmentMetrics[segs[i]].reverse.elevationLoss])
    ELSE ElevationChangesFrom(segs, i + 1,
             [gain |-> total.gain + segmentMetrics[segs[i]].forward.elevationGain,
              loss |-> total.loss + segmentMetrics[segs[i]].forward.elevationLoss])

\* the totals are sums of whole metres, which Math.round leaves as they are
_calculateElevationChanges ==
    ElevationChangesFrom(selectedSegments, 1, [gain |-> 0, loss |-> 0])

\* the route data getRouteInfo returns
getRouteInfo ==
    [points             |-> routePoints,
     segments           |-> selectedSegments,
     distance           |-> _calculateTotalDistance,
     elevationGain      |-> _calculateElevationChanges.gain,
     elevationLoss      |-> _calculateElevationChanges.loss,
     orderedCoordinates |-> _getOrderedCoordinates]

-----------------------------------------------------------------------------
(* Route strings (utils/route-encoding.js) *)

\* A BigInt is written as the sequence of its digits in the base at hand,
\* most significant first and without leading zeros (0n is <<>>); a Base58
\* string is written as the sequence of the alphabet indices of its
\* characters, so the character "1" is 0.

RECURSIVE StripZeros(_)
StripZeros(digits) ==
    IF digits # <<>> /\ digits[1] = 0 THEN StripZeros(Tail(digits)) ELSE digits

RECURSIVE LeadingZeros(_)
\* the leading zero bytes, or the leading "1" characters
LeadingZeros(digits) ==
    IF digits # <<>> /\ digits[1] = 0 THEN <<0>> \o LeadingZeros(Tail(digits))
    ELSE <<>>

RECURSIVE LongDivide(_, _, _, _, _)
\* bigInt / by and bigInt % by, bigInt in base from, from digit i on;
\* d is {q, r}
LongDivide(bigInt, from, by, i, d) ==
    IF i > Len(bigInt) THEN d
    ELSE LongDivide(bigInt, from, by, i + 1,
             [q |-> Append(d.q, (d.r * from + bigInt[i]) \div by),
              r |-> (d.r * from + bigInt[i]) % by])

RECURSIVE ToBase(_, _, _, _)

\* one turn of while (bigInt > 0n): the remainder goes in front of the
\* result, the quotient is the new bigInt
ToBaseTurn(from, to, result, d) ==
    ToBase(StripZeros(d.q), from, to, <<d.r>> \o result)

\* the loop while (bigInt > 0n) of base58Encode (from 256 to 58) and of
\* base58Decode (from 58 to 256)
ToBase(bigInt, from, to, result) ==
    IF bigInt = <<>> THEN result
    ELSE ToBaseTurn(from, to, result,
                    LongDivide(bigInt, from, to, 1, [q |-> <<>>, r |-> 0]))

base58Encode(bytes) ==
    LeadingZeros(bytes) \o ToBase(StripZeros(bytes), 256, 58, <<>>)

base58Decode(str) ==
    LeadingZeros(str) \o ToBase(StripZeros(str), 58, 256, <<>>)

RECURSIVE Uint16Bytes(_, _)
\* the bytes of the Uint16Array view written by encodeRoute: each id is
\* taken modulo 2^16 and stored low byte first
Uint16Bytes(segmentIds, i) ==
    IF i > Len(segmentIds) THEN <<>>
    ELSE <<(segmentIds[i] % 65536) % 256, (segmentIds[i] % 65536) \div 256>>
         \o Uint16Bytes(segmentIds, i + 1)

\* Array.from(new Uint16Array(buffer, 2)) for bytes from (one-based) byte i on
Uint16Values(bytes, i) ==
    [k \in 1..((Len(bytes) - i + 1) \div 2) |->
        bytes[i + 2 * (k - 1)] + 256 * bytes[i + 2 * (k - 1) + 1]]

encodeRoute(segmentIds) ==
    IF Len(segmentIds) = 0 THEN <<>>
    ELSE base58Encode(<<ROUTE_VERSION, 0>> \o Uint16Bytes(segmentIds, 1))

\* the metadata of a segment; split is present for a segment that was
\* divided
SegmentInfo(name, id) == [name |-> name, id |-> id]

\* the first segment name, in key order, whose id is id; <<>> when none
NamesOfId(segmentsData, id) ==
    IF \E k \in 1..Len(segmentsData) : segmentsData[k].id = id
    THEN << segmentsData[CHOOSE k \in 1..Len(segmentsData) :
                /\ segmentsData[k].id = id
                /\ \A j \in 1..(k - 1) : segmentsData[j].id # id] >>
    ELSE <<>>

RECURSIVE SplitNames(_, _, _)
\* the names of the split ids, from split id i on
SplitNames(segmentsData, split, i) ==
    IF i > Len(split) THEN <<>>
    ELSE [k \in 1..Len(NamesOfId(segmentsData, split[i])) |->
             NamesOfId(segmentsData, split[i])[k].name]
         \o SplitNames(segmentsData, split, i + 1)

\* what one decoded id adds to segmentNames
NamesFor(segmentsData, found) ==
    IF found = <<>> THEN <<>>
    ELSE IF Has(found[1], "split") THEN SplitNames(segmentsData, found[1].split, 1)
    ELSE <<found[1].name>>

RECURSIVE DecodeIds(_, _, _)
\* the loop of decodeRoute over the decoded ids, from id i on
DecodeIds(segmentsData, segmentIds, i) ==
    IF i > Len(segmentIds) THEN <<>>
    ELSE NamesFor(segmentsData, NamesOfId(segmentsData, segmentIds[i]))
         \o DecodeIds(segmentsData, segmentIds, i + 1)

\* decodeRoute once the string is decoded to bytes
DecodeBytes(bytes, segmentsData) ==
    IF Len(bytes) = 0 THEN <<>>
    ELSE IF bytes[1] # 1 /\ bytes[1] # ROUTE_VERSION THEN <<>>
    ELSE IF Len(bytes) < 2 \/ (Len(bytes) - 2) % 2 # 0 THEN <<>>
    ELSE SelectSeq(DecodeIds(segmentsData, Uint16Values(bytes, 3), 1),
                   LAMBDA name : name # "")

\* decodeRoute of a Base58 string; the legacy Base64 branch is taken only
\* by strings with a character outside the Base58 alphabet
decodeRoute(routeString, segmentsData) ==
    IF routeString = <<>> THEN <<>>
    ELSE DecodeBytes(base58Decode(routeString), segmentsData)

-----------------------------------------------------------------------------
(* Inputs *)

\* latitudes a caller clicks at: 0 is a falsy coordinate, 900 is farther
\* than 100 m from every segment of every network but ScenarioNetwork
ClickLats == {0, 40, 200, 900}

NoLat == [lng |-> Lng0]

NoLng == [lat |-> 40]

\* a point that carries the name of a segment no network has
GhostPoint == [lat |-> 900, lng |-> Lng0, segmentName |-> "Ghost"]

\* points handed to addPoint
AddInputs == {Coord(lat) : lat \in ClickLats} \cup {NoLat, NoLng}

\* points of the lists handed to recalculateRoute: one on a segment and one
\* that names a segment of its own
RecalcInputs == {Coord(200), GhostPoint}

\* points of the lists handed to restoreFromPoints: one near the start of
\* every network and one off most networks
RestoreInputs == {Coord(40), Coord(900)}

RecalcLists == SeqsUpTo(RecalcInputs, MaxInput)

RestoreLists == SeqsUpTo(RestoreInputs, MaxInput)

\* the snapshots handed to updateInternalState: points as the caller keeps
\* them (no segmentName) and any list of loaded segment names
StatePoints == SeqsUpTo({Coord(900)}, MaxState)

StateSegments == SeqsUpTo(SegmentNames(segments), MaxState)

\* latitudes findClosestSegment is asked about: 340 lies exactly 100 m
\* beyond the end of ChainNetwork, 339 and 341 one metre to either side
QueryLats == {40, 200, 339, 340, 341, 900}

\* the segment lists handed to checkSegmentsContinuity
SegmentLists == SeqsUpTo(SegmentNames(segments), MaxSegs)

-----------------------------------------------------------------------------
(* The engine *)

\* the page's script as main.js declares it: no waypoints, no selection,
\* empty stacks, no drag; action names the last handler that ran and
\* before holds the route the page showed when that handler (for the end
\* of a drag: the drag) began
PageLoaded ==
    [routePoints |-> <<>>, selectedSegments |-> <<>>,
     undoStack |-> <<>>, redoStack |-> <<>>,
     isDragging |-> FALSE, draggedPointIndex |-> -1,
     action |-> "none",
     before |-> [routePoints |-> <<>>, selectedSegments |-> <<>>]]

Init ==
    /\ segments = <<>>
    /\ segmentMetrics = <<>>
    /\ adjacencyMap = <<>>
    /\ endpointGraph = <<>>
    /\ routePoints = <<>>
    /\ selectedSegments = <<>>
    /\ loaded = FALSE
    /\ call = [op |-> "constructor"]
    /\ answers = <<>>
    /\ search = [pc |-> "idle"]
    /\ ui = PageLoaded

\* the end of load: the store holds segs; the metrics and the two graphs
\* are built from it
BuildNetwork(segs) ==
    /\ segments' = segs
    /\ segmentMetrics' = _preCalculateMetrics(segs)
    /\ adjacencyMap' = _buildAdjacencyMap(segs)
    /\ endpointGraph' = _buildEndpointGraph(segs, segmentMetrics')

\* load(geoJsonData, segmentsData); the four maps are cleared before the
\* input is looked at.  The engine is loaded once: a caller whose load
\* threw may load again.
load(geoJsonData) ==
    /\ ~loaded
    /\ IF ~Has(geoJsonData, "features")
       THEN /\ segments' = <<>>
            /\ segmentMetrics' = <<>>
            /\ adjacencyMap' = <<>>
            /\ endpointGraph' = <<>>
            /\ loaded' = FALSE
            /\ call' = [op |-> "load", geoJsonData |-> geoJsonData, threw |-> TRUE]
       ELSE /\ BuildNetwork(LoadFeatures(geoJsonData.features, 1, <<>>))
            /\ loaded' = TRUE
            /\ call' = [op |-> "load", geoJsonData |-> geoJsonData, threw |-> FALSE]
    /\ UNCHANGED <<routePoints, selectedSegments, answers, search, ui>>

\* !point?.lat || !point?.lng: a coordinate that is undefined or 0 is falsy
FalsyCoordinates(point) ==
    \/ ~Has(point, "lat") \/ point.lat = 0
    \/ ~Has(point, "lng") \/ point.lng = 0

\* addPoint that appends the snapped segment to the selection it finds,
\* without a route search
addPoint_direct(point) ==
    /\ loaded
    /\ Len(routePoints) < MaxPoints
    /\ IF FalsyCoordinates(point)
       THEN /\ call' = [op |-> "addPoint", point |-> point, threw |-> TRUE]
            /\ UNCHANGED <<routePoints, selectedSegments>>
       ELSE LET snappedPoint == _snapToNearestSegment(point)
            IN  IF Has(snappedPoint, "undefined")
                THEN /\ call' = [op |-> "addPoint", point |-> point, threw |-> FALSE,
                                 snapped |-> FALSE, result |-> selectedSegments]
                     /\ UNCHANGED <<routePoints, selectedSegments>>
                ELSE /\ routePoints' = Append(routePoints, snappedPoint)
                     /\ selectedSegments' =
                            Append(selectedSegments, snappedPoint.segmentName)
                     /\ call' = [op |-> "addPoint", point |-> point,
                                 threw |-> FALSE, snapped |-> TRUE,
                                 result |-> selectedSegments']
    /\ UNCHANGED <<network, loaded, answers, search, ui>>

\* addPoint that keeps a point it cannot snap, as restoreFromPoints does
addPoint_keepUnsnapped(point) ==
    /\ loaded
    /\ Len(routePoints) < MaxPoints
    /\ IF FalsyCoordinates(point)
       THEN /\ call' = [op |-> "addPoint", point |-> point, threw |-> TRUE]
            /\ UNCHANGED <<routePoints, selectedSegments>>
       ELSE LET snappedPoint == _snapToNearestSegment(point)
            IN  /\ _recalculateRoute(
                       Append(routePoints,
                              IF Has(snappedPoint, "undefined") THEN point
                              ELSE snappedPoint))
                /\ call' = [op |-> "addPoint", point |-> point, threw |-> FALSE,
                            snapped |-> ~Has(snappedPoint, "undefined"),
                            result |-> selectedSegments']
    /\ UNCHANGED <<network, loaded, answers, search, ui>>

\* an addPoint that puts the snapped point in front of the waypoints
addPoint_first(point) ==
    /\ loaded
    /\ Len(routePoints) < MaxPoints
    /\ IF FalsyCoordinates(point)
       THEN /\ call' = [op |-> "addPoint", point |-> point, threw |-> TRUE]
            /\ UNCHANGED <<routePoints, selectedSegments>>
       ELSE IF Has(_snapToNearestSegment(point), "undefined")
       THEN /\ call' = [op |-> "addPoint", point |-> point, threw |-> FALSE,
                        snapped |-> FALSE, result |-> selectedSegments]
            /\ UNCHANGED <<routePoints, selectedSegments>>
       ELSE /\ _recalculateRoute(<<_snapToNearestSegment(point)>> \o routePoints)
            /\ call' = [op |-> "addPoint", point |-> point,
                        threw |-> FALSE, snapped |-> TRUE,
                        result |-> selectedSegments',
                        before |-> [routePoints |-> routePoints,
                                    selectedSegments |-> selectedSegments]]
    /\ UNCHANGED <<network, loaded, answers, search, ui>>

addPoint(point) ==
    /\ loaded
    /\ Len(routePoints) < MaxPoints
    /\ IF FalsyCoordinates(point)
       THEN /\ call' = [op |-> "addPoint", point |-> point, threw |-> TRUE]
            /\ UNCHANGED <<routePoints, selectedSegments>>
       ELSE LET snappedPoint == _snapToNearestSegment(point)
            IN  IF Has(snappedPoint, "undefined")
                THEN /\ call' = [op |-> "addPoint", point |-> point, threw |-> FALSE,
                                 snapped |-> FALSE, result |-> selectedSegments]
                     /\ UNCHANGED <<routePoints, selectedSegments>>
                ELSE /\ _recalculateRoute(Append(routePoints, snappedPoint))
                     /\ call' = [op |-> "addPoint", point |-> point,
                                 threw |-> FALSE, snapped |-> TRUE,
                                 result |-> selectedSegments',
                                 before |-> [routePoints |-> routePoints,
                                             selectedSegments |-> selectedSegments]]
    /\ UNCHANGED <<network, loaded, answers, search, ui>>

\* Array.prototype.splice(index, 1), index zero-based
Splice(s, index) == [i \in 1..(Len(s) - 1) |-> IF i <= index THEN s[i] ELSE s[i + 1]]

\* removePoint without its call of _recalculateRoute: the waypoint goes,
\* the selection stays
removePoint_stale(index) ==
    /\ loaded
    /\ IF index < 0 \/ index >= Len(routePoints)
       THEN /\ call' = [op |-> "removePoint", index |-> index, removed |-> FALSE,
                        result |-> selectedSegments]
            /\ UNCHANGED <<routePoints, selectedSegments>>
       ELSE /\ routePoints' = Splice(routePoints, index)
            /\ call' = [op |-> "removePoint", index |-> index, removed |-> TRUE,
                        result |-> selectedSegments]
            /\ UNCHANGED selectedSegments
    /\ UNCHANGED <<network, loaded, answers, search, ui>>

\* removePoint without its range check: an index that names no waypoint
\* removes the last one
removePoint_last(index) ==
    /\ loaded
    /\ IF Len(routePoints) = 0
       THEN /\ call' = [op |-> "removePoint", index |-> index, removed |-> FALSE,
                        result |-> selectedSegments]
            /\ UNCHANGED <<routePoints, selectedSegments>>
       ELSE /\ _recalculateRoute(
                   Splice(routePoints,
                          IF index < 0 \/ index >= Len(routePoints)
                          THEN Len(routePoints) - 1 ELSE index))
            /\ call' = [op |-> "removePoint", index |-> index, removed |-> TRUE,
                        result |-> selectedSegments']
    /\ UNCHANGED <<network, loaded, answers, search, ui>>

\* the call record of a removal names the call it came after
removePoint(index) ==
    /\ loaded
    /\ IF index < 0 \/ index >= Len(routePoints)
       THEN /\ call' = [op |-> "removePoint", index |-> index, removed |-> FALSE,
                        result |-> selectedSegments]
            /\ UNCHANGED <<routePoints, selectedSegments>>
       ELSE /\ _recalculateRoute(Splice(routePoints, index))
            /\ call' = [op |-> "removePoint", index |-> index, removed |-> TRUE,
                        result |-> selectedSegments', after |-> call.op]
    /\ UNCHANGED <<network, loaded, answers, search, ui>>

\* a clearRoute that empties the waypoint list and leaves the selection
clearRoute_pointsOnly ==
    /\ loaded
    /\ routePoints' = <<>>
    /\ call' = [op |-> "clearRoute", result |-> <<>>,
                cleared |-> [points |-> Len(routePoints), segments |-> 0]]
    /\ UNCHANGED <<network, loaded, selectedSegments, answers, search, ui>>

\* the call record keeps how many waypoints and segments were cleared
clearRoute ==
    /\ loaded
    /\ routePoints' = <<>>
    /\ selectedSegments' = <<>>
    /\ call' = [op |-> "clearRoute", result |-> <<>>,
                cleared |-> [points |-> Len(routePoints),
                             segments |-> Len(selectedSegments)]]
    /\ UNCHANGED <<network, loaded, answers, search, ui>>

\* the map callback of recalculateRoute; Undefined for null
Resnap(point) ==
    IF ~ValidPoint(point) THEN Undefined
    ELSE LET snappedPoint ==
                 _snapToNearestSegment([lat |-> point.lat, lng |-> point.lng])
         IN  IF Has(snappedPoint, "undefined") THEN point
             ELSE [lat |-> snappedPoint.lat, lng |-> snappedPoint.lng,
                   segmentName |-> snappedPoint.segmentName]

NotNull(x) == ~Has(x, "undefined")

\* recalculateRoute that adds the points to the waypoints it finds
recalculateRoute_extend(points) ==
    /\ loaded
    /\ Len(routePoints) < MaxPoints
    /\ _recalculateRoute(
           routePoints
             \o SelectSeq([i \in 1..Len(points) |-> Resnap(points[i])], NotNull))
    /\ call' = [op |-> "recalculateRoute", points |-> points,
                result |-> selectedSegments']
    /\ UNCHANGED <<network, loaded, answers, search, ui>>

recalculateRoute(points) ==
    /\ loaded
    /\ Len(routePoints) < MaxPoints
    /\ _recalculateRoute(
           SelectSeq([i \in 1..Len(points) |-> Resnap(points[i])], NotNull))
    /\ call' = [op |-> "recalculateRoute", points |-> points,
                result |-> selectedSegments']
    /\ UNCHANGED <<network, loaded, answers, search, ui>>

\* one iteration of the loop of restoreFromPoints: the waypoint pushed
Restored(point) ==
    LET snappedPoint == _snapToNearestSegment(point)
    IN  IF ~Has(snappedPoint, "undefined")
        THEN [lat |-> snappedPoint.lat, lng |-> snappedPoint.lng,
              segmentName |-> snappedPoint.segmentName]
        ELSE [lat |-> point.lat, lng |-> point.lng]

\* restoreFromPoints without its fallback: the recalculated selection
\* stands even when it is empty
KeepPrevious_never(recalculated, previousSegments) == recalculated

\* the end of restoreFromPoints: an empty recalculated selection gives way
\* to the selection held before the call
KeepPrevious(recalculated, previousSegments) ==
    IF Len(recalculated) = 0 /\ Len(previousSegments) > 0
    THEN previousSegments
    ELSE recalculated

restoreFromPoints(points) ==
    /\ loaded
    /\ Len(routePoints) < MaxPoints
    /\ LET validPoints == SelectSeq(points, ValidPoint)
       IN  IF Len(validPoints) = 0
           THEN /\ routePoints' = <<>>
                /\ selectedSegments' = <<>>
           ELSE /\ routePoints' =
                      SelectSeq([i \in 1..Len(validPoints) |-> Restored(validPoints[i])],
                                ValidPoint)
                /\ selectedSegments' =
                      KeepPrevious(RecalculatedSegments(routePoints'), selectedSegments)
    /\ call' = [op |-> "restoreFromPoints", points |-> points,
                result |-> selectedSegments']
    /\ UNCHANGED <<network, loaded, answers, search, ui>>

updateInternalState(points, segs) ==
    /\ loaded
    /\ Len(routePoints) < MaxPoints
    /\ routePoints' = points
    /\ selectedSegments' = segs
    /\ call' = [op |-> "updateInternalState", points |-> points, segs |-> segs]
    /\ UNCHANGED <<network, loaded, answers, search, ui>>

\* a call of the public method findClosestSegment
CallFindClosestSegment(point) ==
    /\ loaded
    /\ call' = [op |-> "findClosestSegment", point |-> point,
                result |-> findClosestSegment(point)]
    /\ UNCHANGED <<network, loaded, routePoints, selectedSegments, answers, search, ui>>

\* a call of the public method checkSegmentsContinuity
CallCheckSegmentsContinuity(segs) ==
    /\ loaded
    /\ call' = [op |-> "checkSegmentsContinuity", segs |-> segs,
                result |-> checkSegmentsContinuity(segs)]
    /\ UNCHANGED <<network, loaded, routePoints, selectedSegments, answers, search, ui>>

\* mockSegmentsData of tests/test-route-parsing.js, in key order
MockSegmentsData ==
    << SegmentInfo("Test Segment 1", 1),
       SegmentInfo("Test Segment 2", 2),
       [name |-> "Test Segment 3", id |-> 3, split |-> <<4, 5>>],
       SegmentInfo("Split Segment A", 4),
       SegmentInfo("Split Segment B", 5) >>

\* metadata in which no segment was divided
PlainSegmentsData ==
    << SegmentInfo("Test Segment 1", 1),
       SegmentInfo("Test Segment 2", 2),
       SegmentInfo("Test Segment 3", 3),
       SegmentInfo("Far Segment", 300) >>

SegmentsDatas == {MockSegmentsData, PlainSegmentsData}

\* the ids handed to encodeRoute: those of the metadata
RouteIds == {1, 2, 3, 4, 5, 300}

\* the engine as constructed, and a list of ids to share with the metadata
\* to read it back with
InitRoute ==
    /\ segments = <<>>
    /\ segmentMetrics = <<>>
    /\ adjacencyMap = <<>>
    /\ endpointGraph = <<>>
    /\ routePoints = <<>>
    /\ selectedSegments = <<>>
    /\ loaded = FALSE
    /\ answers = <<>>
    /\ search = [pc |-> "idle"]
    /\ ui = PageLoaded
    /\ call \in {[op |-> "share", segmentIds |-> segmentIds,
                   segmentsData |-> segmentsData] :
                      segmentIds \in SeqsUpTo(RouteIds, MaxIds),
                      segmentsData \in SegmentsDatas}

\* a call of encodeRoute (utils/route-encoding.js) on the ids to share
CallEncodeRoute ==
    /\ call.op = "share"
    /\ call' = [op |-> "encodeRoute", segmentIds |-> call.segmentIds,
                segmentsData |-> call.segmentsData,
                result |-> encodeRoute(call.segmentIds)]
    /\ UNCHANGED <<network, loaded, routePoints, selectedSegments, answers, search, ui>>

\* a call of decodeRoute on the string encodeRoute has just returned
CallDecodeRoute ==
    /\ call.op = "encodeRoute"
    /\ call' = [op |-> "decodeRoute", segmentIds |-> call.segmentIds,
                routeString |-> call.result, segmentsData |-> call.segmentsData,
                result |-> decodeRoute(call.result, call.segmentsData)]
    /\ UNCHANGED <<network, loaded, routePoints, selectedSegments, answers, search, ui>>

\* the pairs of points findPathBetweenPoints is asked about: across the
\* network, and from a point off most networks
PathQueries == { <<Coord(40), Coord(200)>>, <<Coord(900), Coord(40)>> }

\* a call of the public method findPathBetweenPoints; the first answer to
\* each pair of points is kept, with the number of waypoints the engine
\* held when it gave it
CallFindPathBetweenPoints(startPoint, endPoint) ==
    /\ loaded
    /\ call' = [op |-> "findPathBetweenPoints",
                startPoint |-> startPoint, endPoint |-> endPoint,
                result |-> _findPathBetweenPoints(startPoint, endPoint)]
    /\ answers' =
          IF <<startPoint, endPoint>> \in DOMAIN answers THEN answers
          ELSE [q \in DOMAIN answers \cup {<<startPoint, endPoint>>} |->
                   IF q = <<startPoint, endPoint>>
                   THEN [result |-> call'.result, waypoints |-> Len(routePoints)]
                   ELSE answers[q]]
    /\ UNCHANGED <<network, loaded, routePoints, selectedSegments, search, ui>>

\* a getRouteInfo whose orderer works on the stored polyline of the first
\* segment, not on a copy of it
CallGetRouteInfo_inPlace ==
    /\ loaded
    /\ call' = [op |-> "getRouteInfo", result |-> getRouteInfo]
    /\ segments' =
          IF /\ Len(selectedSegments) > 1
             /\ HasSegment(selectedSegments[1])
             /\ HasSegment(selectedSegments[2])
          THEN [k \in 1..Len(segments) |->
                   IF segments[k].name = selectedSegments[1]
                   THEN [segments[k] EXCEPT !.coordinates =
                            _orientSegmentForConnection(@,
                                Coordinates(selectedSegments[2]), TRUE, Undefined)]
                   ELSE segments[k]]
          ELSE segments
    /\ UNCHANGED <<segmentMetrics, adjacencyMap, endpointGraph, loaded,
                   routePoints, selectedSegments, answers, search, ui>>

\* a call of the public method getRouteInfo
CallGetRouteInfo ==
    /\ loaded
    /\ call' = [op |-> "getRouteInfo", result |-> getRouteInfo]
    /\ UNCHANGED <<network, loaded, routePoints, selectedSegments, answers, search, ui>>

\* _dijkstraPath(srcNode, dstNode) is entered: the node check and the
\* initialisation of dist, prev and visited
SearchStart(srcNode, dstNode) ==
    /\ loaded
    /\ search.pc \in {"idle", "done"}
    /\ search' =
          IF ~Includes(GraphNodes, srcNode) \/ ~Includes(GraphNodes, dstNode)
          THEN SearchDone(srcNode, dstNode, <<>>)
          ELSE [pc |-> "loop", srcNode |-> srcNode, dstNode |-> dstNode,
                visited |-> {},
                st |-> [dist |-> [n \in {GraphNodes[i] : i \in 1..Len(GraphNodes)} |->
                                     IF n = srcNode THEN 0 ELSE Infinity],
                        prev |-> <<>>]]
    /\ UNCHANGED <<network, loaded, routePoints, selectedSegments, call, answers, ui>>

\* the while loop of _dijkstraPath takes one turn
SearchVisit ==
    /\ search.pc = "loop"
    /\ search' = LoopTurn(search,
                     PickNode(GraphNodes, search.st.dist, search.visited, 1,
                              NoNode, Infinity))
    /\ UNCHANGED <<network, loaded, routePoints, selectedSegments, call, answers, ui>>

\* the predecessor walk of _dijkstraPath takes one turn
SearchWalk ==
    /\ search.pc = "walk"
    /\ search' = WalkTurn(search)
    /\ UNCHANGED <<network, loaded, routePoints, selectedSegments, call, answers, ui>>

\* the reference points handed to _findShortestSegmentPath: none, a point
\* near the south end of the meridian and one beyond its north end
EndpointHints == {Undefined, Coord(40), Coord(900)}

\* a call of _findShortestSegmentPath, as _findPathBetweenPoints and
\* _findPathToSegmentEntryPoint make it
CallFindShortestSegmentPath(startSegmentName, endSegmentName, options) ==
    /\ loaded
    /\ call' = [op |-> "_findShortestSegmentPath",
                startSegmentName |-> startSegmentName,
                endSegmentName |-> endSegmentName,
                options |-> options,
                result |-> _findShortestSegmentPath(startSegmentName, endSegmentName,
                                                    options)]
    /\ UNCHANGED <<network, loaded, routePoints, selectedSegments, answers, search, ui>>

Next ==
    \/ \E net \in Networks : load(Collection(net))
    \/ \E point \in AddInputs : addPoint(point)
    \/ \E index \in -1..MaxPoints : removePoint(index)
    \/ clearRoute
    \/ \E points \in RecalcLists : recalculateRoute(points)
    \/ \E points \in RestoreLists : restoreFromPoints(points)
    \/ \E points \in StatePoints : \E segs \in StateSegments :
            updateInternalState(points, segs)

\* the engine under every mutating call
Spec == Init /\ [][Next]_vars

NextAdd ==
    \/ \E net \in Networks : load(Collection(net))
    \/ \E point \in AddInputs : addPoint(point)

\* a route built from the empty route by addPoint calls only
SpecAdd == Init /\ [][NextAdd]_vars

NextQuery ==
    \/ \E net \in Networks : load(Collection(net))
    \/ \E lat \in QueryLats : CallFindClosestSegment(Coord(lat))
    \/ \E segs \in SegmentLists : CallCheckSegmentsContinuity(segs)

\* the read-only queries on a loaded network
SpecQuery == Init /\ [][NextQuery]_vars

NextPath ==
    \/ \E net \in Networks : load(Collection(net))
    \/ \E point \in AddInputs : addPoint(point)
    \/ clearRoute
    \/ \E q \in PathQueries : CallFindPathBetweenPoints(q[1], q[2])

\* findPathBetweenPoints asked while a route is built and cleared
SpecPath == Init /\ [][NextPath]_vars

\* what load is handed: nothing, a collection without a feature list, an
\* empty list, features that are no polylines, a polyline among them, two
\* polylines of one name, a polyline without a name, and the networks
LoadInputs ==
    { Undefined,
      [type |-> "FeatureCollection"],
      [features |-> <<>>],
      [features |-> <<MultiPointFeature>>],
      [features |-> <<MultiPointFeature, LineStringFeature("A", <<0, 40, 80>>)>>],
      [features |-> <<LineStringFeature("A", <<0, 40>>),
                      LineStringFeature("B", <<40, 80>>),
                      LineStringFeature("A", <<200, 240>>)>>],
      [features |-> <<[geometry |-> LineStringFeature("A", <<0, 40>>).geometry]>>] }
        \cup {Collection(net) : net \in Networks}

NextLoad ==
    \/ \E geoJsonData \in LoadInputs : load(geoJsonData)
    \/ \E point \in AddInputs : addPoint(point)

\* load on every kind of input, and the routes built afterwards
SpecLoad == Init /\ [][NextLoad]_vars

NextWaypoints ==
    \/ \E net \in Networks : load(Collection(net))
    \/ \E point \in AddInputs : addPoint(point)
    \/ \E points \in RecalcLists : recalculateRoute(points)
    \/ \E points \in RestoreLists : restoreFromPoints(points)

\* the calls that take points from the caller
SpecWaypoints == Init /\ [][NextWaypoints]_vars

\* the points handed to addPoint where every operation is called
FrameInputs == {Coord(40), Coord(200)}

NextFrame ==
    \/ \E net \in Networks : load(Collection(net))
    \/ \E point \in FrameInputs : addPoint(point)
    \/ removePoint(0)
    \/ clearRoute
    \/ recalculateRoute(<<Coord(200), Coord(40)>>)
    \/ restoreFromPoints(<<Coord(40)>>)
    \/ \E points \in StatePoints : \E segs \in StateSegments :
            updateInternalState(points, segs)
    \/ CallFindClosestSegment(Coord(40))
    \/ CallFindPathBetweenPoints(Coord(40), Coord(200))
    \/ CallCheckSegmentsContinuity(selectedSegments)
    \/ CallGetRouteInfo

\* every public operation of the engine, mutating calls and queries
SpecFrame == Init /\ [][NextFrame]_vars

\* the networks the shortest-path search is followed on
SearchNetworks == Networks \cup {JunctionNetwork, LoopNetwork}

\* the nodes a search is asked about: every node of the graph and a node
\* the graph does not have
SearchNodes == {GraphNodes[i] : i \in 1..Len(GraphNodes)} \cup {Node("Ghost", "S")}

NextSearch ==
    \/ \E net \in SearchNetworks : load(Collection(net))
    \/ \E srcNode \in SearchNodes : \E dstNode \in SearchNodes :
            SearchStart(srcNode, dstNode)
    \/ SearchVisit
    \/ SearchWalk

\* the shortest-path search, one loop turn at a time
SpecSearch == Init /\ [][NextSearch]_vars

\* the loops of a call run on: JavaScript runs a call to completion, so a
\* loop turn that can be taken is taken
SpecSearchFair == SpecSearch /\ WF_vars(SearchVisit) /\ WF_vars(SearchWalk)

NextSegmentPath ==
    \/ \E net \in SearchNetworks : load(Collection(net))
    \/ \E startSegmentName \in SegmentNames(segments) :
       \E endSegmentName \in SegmentNames(segments) :
       \E routeEndpointPoint \in EndpointHints :
       \E targetEntryPoint \in EndpointHints :
            CallFindShortestSegmentPath(startSegmentName, endSegmentName,
                [routeEndpointPoint |-> routeEndpointPoint,
                 targetEntryPoint   |-> targetEntryPoint])

\* the shortest-path search between two segments of a loaded network
SpecSegmentPath == Init /\ [][NextSegmentPath]_vars

NextEdit ==
    \/ \E net \in Networks : load(Collection(net))
    \/ \E point \in AddInputs : addPoint(point)
    \/ \E index \in -1..MaxPoints : removePoint(index)
    \/ clearRoute
    \/ \E points \in RecalcLists : recalculateRoute(points)

\* a route edited by the calls that derive the selection from the waypoints
SpecEdit == Init /\ [][NextEdit]_vars

-----------------------------------------------------------------------------
(* The page's script (main.js): waypoints, selection, undo and redo *)

\* the route an engine holds: r.routePoints and r.selectedSegments
Route(points, segs) == [routePoints |-> points, selectedSegments |-> segs]

\* the route _recalculateRoute leaves when run with this.routePoints = points
Recalculated(points) ==
    Route(SelectSeq(points, ValidPoint),
          RecalculatedSegments(SelectSeq(points, ValidPoint)))

\* routeManager.addPoint(point) on an engine holding route r, for a point
\* whose coordinates it accepts
routeManager_addPoint(r, point) ==
    IF ~Snaps(point) THEN r
    ELSE Recalculated(Append(r.routePoints, _snapToNearestSegment(point)))

\* routeManager.removePoint(index) on an engine holding route r
routeManager_removePoint(r, index) ==
    IF index < 0 \/ index >= Len(r.routePoints) THEN r
    ELSE Recalculated(Splice(r.routePoints, index))

\* routeManager.recalculateRoute(points)
routeManager_recalculateRoute(points) ==
    Recalculated(SelectSeq([i \in 1..Len(points) |-> Resnap(points[i])], NotNull))

\* the waypoints restoreFromPoints pushes for points
RestoredPoints(points) ==
    SelectSeq([i \in 1..Len(points) |-> Restored(points[i])], ValidPoint)

\* routeManager.restoreFromPoints(points) on an engine holding route r
routeManager_restoreFromPoints(r, points) ==
    IF Len(SelectSeq(points, ValidPoint)) = 0 THEN Route(<<>>, <<>>)
    ELSE Route(RestoredPoints(SelectSeq(points, ValidPoint)),
               KeepPrevious(RecalculatedSegments(
                                RestoredPoints(SelectSeq(points, ValidPoint))),
                            r.selectedSegments))

\* the route the engine holds now
EngineRoute == Route(routePoints, selectedSegments)

\* the route the page shows
PageRoute(u) == Route(u.routePoints, u.selectedSegments)

\* saveState() run on page u
saveState(u) ==
    [u EXCEPT !.undoStack = Append(@, [segments |-> u.selectedSegments,
                                         points   |-> u.routePoints]),
              !.redoStack = <<>>]

\* the last entry of a stack, and the stack without it: Array.prototype.pop
Popped(stack) == SubSeq(stack, 1, Len(stack) - 1)

RECURSIVE PathSegmentsFrom(_, _, _)
\* the loop of the page's own recalculateRoute over the pairs of
\* consecutive waypoints, from pair i on: a segment is not pushed onto
\* itself
PathSegmentsFrom(points, i, pathSegments) ==
    IF i >= Len(points) THEN pathSegments
    ELSE PathSegmentsFrom(points, i + 1,
             pathSegments
               \o SelectSeq(
                    [k \in 1..Len(_findPathBetweenPoints(points[i], points[i + 1])) |->
                        IF (IF k = 1
                            THEN pathSegments # <<>>
                                   /\ Last(pathSegments)
                                        = _findPathBetweenPoints(points[i], points[i + 1])[1]
                            ELSE _findPathBetweenPoints(points[i], points[i + 1])[k - 1]
                                   = _findPathBetweenPoints(points[i], points[i + 1])[k])
                        THEN "null"
                        ELSE _findPathBetweenPoints(points[i], points[i + 1])[k]],
                    LAMBDA name : name # "null"))

\* the selection the page's own recalculateRoute() leaves: the fallback of
\* addRoutePoint when the engine throws
PageRecalculated(u) ==
    IF Len(u.routePoints) = 0 THEN <<>>
    ELSE IF Len(u.routePoints) = 1
    THEN (IF findClosestSegment(u.routePoints[1]) # "null"
          THEN <<findClosestSegment(u.routePoints[1])>>
          ELSE u.selectedSegments)
    ELSE PathSegmentsFrom(u.routePoints, 1, <<>>)

\* the page after a handler: what it holds, the handler's name and the
\* route it showed when the handler began
After(u, action, before) == [u EXCEPT !.action = action, !.before = before]

\* once the undo stack holds MaxUndo states the user only undoes, redoes
\* or resets
MaxUndo == 2

\* once the page holds MaxPagePoints waypoints the user adds no more
MaxPagePoints == 2

\* the latitudes of the points the click handler hands to addRoutePoint
PageClickLats == {0, 40, 200}

\* the latitudes a waypoint is dragged to: onto a segment and off every one
DragLats == {200, 5000}

\* the lists of middle points a shared route is read into
MiddlePointLists == {<<Coord(900)>>}

\* addRoutePoint(lngLat), called by addPointFromLngLat with a point on a
\* segment near the click
addRoutePoint(lngLat) ==
    /\ loaded
    /\ ~ui.isDragging
    /\ Snaps(lngLat)
    /\ Len(ui.routePoints) < MaxPagePoints
    /\ Len(ui.undoStack) < MaxUndo
    /\ IF FalsyCoordinates(lngLat)
       THEN /\ ui' = After([saveState(ui) EXCEPT
                               !.routePoints = Append(@, lngLat),
                               !.selectedSegments =
                                   PageRecalculated([ui EXCEPT !.routePoints =
                                                         Append(@, lngLat)])],
                           "addRoutePoint", PageRoute(ui))
            /\ UNCHANGED <<routePoints, selectedSegments>>
       ELSE /\ routePoints' = routeManager_addPoint(EngineRoute, lngLat).routePoints
            /\ selectedSegments' =
                   routeManager_addPoint(EngineRoute, lngLat).selectedSegments
            /\ ui' = After([saveState(ui) EXCEPT
                               !.routePoints = Append(@, lngLat),
                               !.selectedSegments = selectedSegments'],
                           "addRoutePoint", PageRoute(ui))
    /\ call' = [op |-> "addPoint", point |-> lngLat,
                threw |-> FalsyCoordinates(lngLat)]
    /\ UNCHANGED <<network, loaded, answers, search>>

\* the page after removeRoutePoint(index) found index in range, the engine
\* having removed its waypoint and handed back segs
PointRemoved(u, index, segs) ==
    [saveState(u) EXCEPT !.routePoints = Splice(@, index),
                         !.selectedSegments = segs]

\* removeRoutePoint(index), called by the context menu of a waypoint
removeRoutePoint(index) ==
    /\ loaded
    /\ ~ui.isDragging
    /\ index >= 0
    /\ index < Len(ui.routePoints)
    /\ Len(ui.undoStack) < MaxUndo
    /\ routePoints' = routeManager_removePoint(EngineRoute, index).routePoints
    /\ selectedSegments' = routeManager_removePoint(EngineRoute, index).selectedSegments
    /\ ui' = After(PointRemoved(ui, index, selectedSegments'),
                   "removeRoutePoint", PageRoute(ui))
    /\ call' = [op |-> "removePoint", index |-> index]
    /\ UNCHANGED <<network, loaded, answers, search>>

\* mousedown on the waypoint of index index: a drag begins
mousedown(index) ==
    /\ loaded
    /\ ~ui.isDragging
    /\ index >= 0
    /\ index < Len(ui.routePoints)
    /\ Len(ui.undoStack) < MaxUndo
    /\ ui' = After([ui EXCEPT !.isDragging = TRUE, !.draggedPointIndex = index],
                   "mousedown", PageRoute(ui))
    /\ UNCHANGED <<network, loaded, routePoints, selectedSegments, call, answers, search>>

\* mousemove while dragging: the waypoint follows the pointer and the
\* engine recalculates the route from the page's waypoints
mousemove(lat) ==
    /\ ui.isDragging
    /\ ui.draggedPointIndex # -1
    /\ routePoints' =
          routeManager_recalculateRoute(
              [ui.routePoints EXCEPT ![ui.draggedPointIndex + 1].lat = lat]).routePoints
    /\ selectedSegments' =
          routeManager_recalculateRoute(
              [ui.routePoints EXCEPT ![ui.draggedPointIndex + 1].lat = lat]).selectedSegments
    /\ ui' = After([ui EXCEPT !.routePoints[ui.draggedPointIndex + 1].lat = lat,
                              !.selectedSegments = selectedSegments'],
                   "mousemove", ui.before)
    /\ call' = [op |-> "recalculateRoute"]
    /\ UNCHANGED <<network, loaded, answers, search>>

\* the dragged waypoint is no longer near a segment
DroppedOffNetwork(u) ==
    /\ u.draggedPointIndex # -1
    /\ u.draggedPointIndex < Len(u.routePoints)
    /\ findClosestSegment(u.routePoints[u.draggedPointIndex + 1]) = "null"

\* mouseup while dragging: a waypoint dropped off the network is removed by
\* removeRoutePoint, then the state is saved
mouseup ==
    /\ ui.isDragging
    /\ IF DroppedOffNetwork(ui)
       THEN /\ routePoints' =
                  routeManager_removePoint(EngineRoute, ui.draggedPointIndex).routePoints
            /\ selectedSegments' =
                  routeManager_removePoint(EngineRoute,
                                           ui.draggedPointIndex).selectedSegments
            /\ ui' = After([saveState(PointRemoved(ui, ui.draggedPointIndex,
                                                   selectedSegments'))
                               EXCEPT !.isDragging = FALSE, !.draggedPointIndex = -1],
                           "mouseup", ui.before)
            /\ call' = [op |-> "removePoint", index |-> ui.draggedPointIndex]
       ELSE /\ ui' = After([saveState(ui) EXCEPT !.isDragging = FALSE,
                                                 !.draggedPointIndex = -1],
                           "mouseup", ui.before)
            /\ call' = [op |-> "findClosestSegment"]
            /\ UNCHANGED <<routePoints, selectedSegments>>
    /\ UNCHANGED <<network, loaded, answers, search>>

\* the selection undo() ends with: what restoreFromPoints returned, or
\* the saved segments when it returned none
UndoneSegments(restored, previousState) ==
    IF Len(restored) = 0 /\ Len(previousState.segments) > 0
    THEN previousState.segments
    ELSE restored

\* undo(): the engine restores the saved waypoints; when that leaves no
\* selection the saved one is written into the engine
undo ==
    /\ loaded
    /\ ~ui.isDragging
    /\ Len(ui.undoStack) > 0
    /\ selectedSegments' =
          UndoneSegments(
              routeManager_restoreFromPoints(EngineRoute,
                  Last(ui.undoStack).points).selectedSegments,
              Last(ui.undoStack))
    /\ routePoints' =
          IF /\ Len(routeManager_restoreFromPoints(EngineRoute,
                        Last(ui.undoStack).points).selectedSegments) = 0
             /\ Len(Last(ui.undoStack).segments) > 0
          THEN Last(ui.undoStack).points
          ELSE routeManager_restoreFromPoints(EngineRoute,
                   Last(ui.undoStack).points).routePoints
    /\ ui' = After([ui EXCEPT
                       !.redoStack = Append(@, [segments |-> ui.selectedSegments,
                                                points   |-> ui.routePoints]),
                       !.undoStack = Popped(@),
                       !.routePoints = Last(ui.undoStack).points,
                       !.selectedSegments = selectedSegments'],
                   "undo", PageRoute(ui))
    /\ call' = [op |-> "restoreFromPoints"]
    /\ UNCHANGED <<network, loaded, answers, search>>

\* redo(): the engine restores the saved waypoints, then the page's
\* waypoints and selection are written into the engine
redo ==
    /\ loaded
    /\ ~ui.isDragging
    /\ Len(ui.redoStack) > 0
    /\ selectedSegments' =
          routeManager_restoreFromPoints(EngineRoute,
              Last(ui.redoStack).points).selectedSegments
    /\ routePoints' = Last(ui.redoStack).points
    /\ ui' = After([ui EXCEPT
                       !.undoStack = Append(@, [segments |-> ui.selectedSegments,
                                                points   |-> ui.routePoints]),
                       !.redoStack = Popped(@),
                       !.routePoints = Last(ui.redoStack).points,
                       !.selectedSegments = selectedSegments'],
                   "redo", PageRoute(ui))
    /\ call' = [op |-> "updateInternalState"]
    /\ UNCHANGED <<network, loaded, answers, search>>

\* resetRoute(): the engine and the page are cleared, and both stacks
resetRoute ==
    /\ loaded
    /\ ~ui.isDragging
    /\ routePoints' = <<>>
    /\ selectedSegments' = <<>>
    /\ ui' = After([ui EXCEPT !.routePoints = <<>>, !.selectedSegments = <<>>,
                              !.undoStack = <<>>, !.redoStack = <<>>],
                   "resetRoute", PageRoute(ui))
    /\ call' = [op |-> "clearRoute"]
    /\ UNCHANGED <<network, loaded, answers, search>>

\* loadRouteFromEncoding(routeEncoding) for an encoding that yields
\* middlePoints: the state is saved when the page shows a route
loadRouteFromEncoding(middlePoints) ==
    /\ loaded
    /\ ~ui.isDragging
    /\ Len(middlePoints) > 0
    /\ Len(ui.undoStack) < MaxUndo
    /\ routePoints' = routeManager_recalculateRoute(middlePoints).routePoints
    /\ selectedSegments' = routeManager_recalculateRoute(middlePoints).selectedSegments
    /\ ui' = After([(IF Len(ui.selectedSegments) > 0 \/ Len(ui.routePoints) > 0
                     THEN saveState(ui) ELSE ui)
                       EXCEPT !.routePoints = middlePoints,
                              !.selectedSegments = selectedSegments'],
                   "loadRouteFromEncoding", PageRoute(ui))
    /\ call' = [op |-> "recalculateRoute"]
    /\ UNCHANGED <<network, loaded, answers, search>>

\* the network the page is followed on
PageNetworks == {ScenarioNetwork}

NextPage ==
    \/ \E net \in PageNetworks : load(Collection(net))
    \/ \E lat \in PageClickLats : addRoutePoint(Coord(lat))
    \/ \E index \in 0..(MaxPagePoints - 1) : removeRoutePoint(index)
    \/ \E index \in 0..(MaxPagePoints - 1) : mousedown(index)
    \/ \E lat \in DragLats : mousemove(lat)
    \/ mouseup
    \/ undo
    \/ redo
    \/ resetRoute
    \/ \E middlePoints \in MiddlePointLists : loadRouteFromEncoding(middlePoints)

\* the page's handlers on a loaded engine
SpecPage == Init /\ [][NextPage]_vars

NextRoute ==
    \/ CallEncodeRoute
    \/ CallDecodeRoute

\* a route encoded into a string and decoded again
SpecRoute == InitRoute /\ [][NextRoute]_vars

-----------------------------------------------------------------------------
(* The selection as a function of the waypoints *)

RECURSIVE RuleFold(_, _, _)
\* the route-extension rule applied to points[i], points[i + 1], ... in
\* order, each time to the selection built so far
RuleFold(points, i, S) ==
    IF i > Len(points) THEN S
    ELSE RuleFold(points, i + 1, S \o _findRouteExtensionToPoint(points[i], S))

\* the rule applied sequentially, from the empty selection, to the
\* engine's waypoints
DerivedSelection == RuleFold(routePoints, 1, <<>>)

\* the last call was an addPoint whose point snapped to a segment
AddedPoint == call.op = "addPoint" /\ ~call.threw /\ call.snapped

\* the last call was a removePoint whose index named a waypoint
RemovedPoint == call.op = "removePoint" /\ call.removed

\* C1 as stated: after every addPoint, removePoint, recalculateRoute and
\* clearRoute call the selection equals the route-extension rule applied
\* sequentially, from the empty selection, to the current waypoints.
C1_AfterEveryCall ==
    call.op \in {"addPoint", "removePoint", "recalculateRoute", "clearRoute"}
        => selectedSegments = DerivedSelection

\* C1 amended: after every call that rewrites the waypoint list (an
\* addPoint whose point snaps, a removePoint whose index is in range, a
\* recalculateRoute, a clearRoute) the selection equals the route-extension
\* rule applied sequentially, from the empty selection, to the current
\* waypoints, and is empty when there are no waypoints.
C1_AfterMutation ==
    (AddedPoint \/ RemovedPoint \/ call.op \in {"recalculateRoute", "clearRoute"})
        => /\ selectedSegments = DerivedSelection
           /\ (routePoints = <<>> => selectedSegments = <<>>)

\* C1 witness: a removePoint left two waypoints whose derived selection
\* runs over three segments or more
C1_Witness ==
    /\ RemovedPoint
    /\ Len(routePoints) = 2
    /\ Len(selectedSegments) >= 3

-----------------------------------------------------------------------------
(* Continuity of the routes addPoint builds (under SpecAdd) *)

\* C2 as stated: for every loaded network and every sequence of addPoint
\* calls from the empty route, checkSegmentsContinuity reports the
\* resulting selection continuous.
C2_AddedRouteContinuous ==
    loaded => checkSegmentsContinuity(selectedSegments).isContinuous

-----------------------------------------------------------------------------
(* The verdict of the continuity checker (under SpecQuery) *)

RECURSIVE Layout(_, _, _)
\* the coordinate list of each segment of segs, from segs[i] on, in the
\* direction the CoordinateOrderer lays it out; done holds the lists of the
\* segments before segs[i]
Layout(segs, i, done) ==
    IF i > Len(segs) THEN done
    ELSE Layout(segs, i + 1,
            Append(done,
                IF i = 1
                THEN _orientSegmentForConnection(Coordinates(segs[1]),
                                                 Coordinates(segs[2]), TRUE, Undefined)
                ELSE _orientSegmentForConnection(Coordinates(segs[i]), <<>>, FALSE,
                                                 Last(Last(done)))))

\* the gap between the last coordinate of segment i and the first
\* coordinate of segment i + 1 (one-based)
JunctionGap(layout, i) == _getDistance(Last(layout[i]), layout[i + 1][1])

\* the verdict C3 describes: broken at the first junction whose gap
\* exceeds 100 m (zero-based index), continuous when there is none
ExpectedVerdict(segs) ==
    LET layout == Layout(segs, 1, <<>>)
        wide == {i \in 1..(Len(segs) - 1) : JunctionGap(layout, i) > 100}
    IN  IF wide = {} THEN Continuous
        ELSE Broken((CHOOSE i \in wide : \A j \in wide : i <= j) - 1)

\* C3 as stated: on a list of two or more loaded segments
\* checkSegmentsContinuity reports broken exactly when some junction gap of
\* the oriented segments exceeds 100 m, with the index of the first such
\* junction, and continuous with index -1 otherwise.
C3_VerdictIsFirstWideGap ==
    (call.op = "checkSegmentsContinuity" /\ Len(call.segs) >= 2)
        => call.result = ExpectedVerdict(call.segs)

-----------------------------------------------------------------------------
(* The nearest segment (under SpecQuery) *)

\* the distance from point to the polyline coords: the least distance to
\* one of its edges
DistanceToPolyline(point, coords) ==
    LET edgeDistances ==
            {_getDistance(point,
                 _getClosestPointOnLineSegment(point, coords[i], coords[i + 1])) :
                 i \in 1..(Len(coords) - 1)}
    IN  CHOOSE d \in edgeDistances : \A e \in edgeDistances : d <= e

\* the least distance from point to a segment of the store
MinimalDistance(point) ==
    LET all == {DistanceToPolyline(point, segments[s].coordinates) :
                    s \in 1..Len(segments)}
    IN  CHOOSE d \in all : \A e \in all : d <= e

\* C4 as stated: findClosestSegment(p) returns the name of a segment at
\* minimal distance from p whenever that distance is at most 100 m, 100 m
\* itself included, and none when p is farther than 100 m from every
\* segment.
C4_ClosestWithin100 ==
    call.op = "findClosestSegment"
        => IF MinimalDistance(call.point) <= 100
           THEN /\ HasSegment(call.result)
                /\ DistanceToPolyline(call.point, Coordinates(call.result))
                       = MinimalDistance(call.point)
           ELSE call.result = "null"

-----------------------------------------------------------------------------
(* addPoint and recalculateRoute, step by step (under Spec) *)

\* C5 as stated: in every reachable state with selection S, an addPoint
\* whose point snaps to a segment T returns S followed by the extension
\* the rule computes for (S, T); S is a prefix of what is returned and is
\* not derived again.
C5_AppendsToSelection ==
    [][(call'.op = "addPoint" /\ ~call'.threw /\ call'.snapped)
          => call'.result =
                selectedSegments
                  \o _findRouteExtensionToPoint(Last(routePoints'), selectedSegments)]_vars

\* C5 amended: in every state whose selection S is the one the rule
\* derives from the waypoints, an addPoint whose point snaps to a segment
\* T returns, and leaves as the selection, S followed by the extension the
\* rule computes for (S, T).
C5_AppendsToDerivedSelection ==
    [][(/\ call'.op = "addPoint" /\ ~call'.threw /\ call'.snapped
        /\ selectedSegments = DerivedSelection)
          => /\ call'.result =
                   selectedSegments
                     \o _findRouteExtensionToPoint(Last(routePoints'), selectedSegments)
             /\ selectedSegments' = call'.result]_vars

\* C5 witness: an addPoint on a route of one waypoint or more returned a
\* selection with more segments than the route has waypoints, so some
\* extension held several segments
C5_Witness ==
    /\ AddedPoint
    /\ Len(routePoints) >= 2
    /\ Len(call.result) > Len(routePoints)
    /\ selectedSegments = DerivedSelection

\* C6: recalculateRoute(points) called twice in a row returns the same
\* selection both times, and leaves the same selection, whatever the
\* waypoints and the selection were before the first call.
C6_RecalculateTwice ==
    [][(/\ call.op = "recalculateRoute"
        /\ call'.op = "recalculateRoute"
        /\ call'.points = call.points)
          => /\ call'.result = call.result
             /\ selectedSegments' = selectedSegments]_vars

\* C6 witness: recalculateRoute has returned two segments for a list of
\* two different points
C6_Witness ==
    /\ call.op = "recalculateRoute"
    /\ Len(call.points) = 2
    /\ call.points[1] # call.points[2]
    /\ Len(call.result) = 2

\* C7 as stated: when the selection is non-empty and addPoint's point
\* snaps to the segment that is the last element of the selection, the
\* returned selection is the previous selection and the waypoint is
\* appended to the waypoint list.
C7_SameSegmentKeepsSelection ==
    [][(/\ call'.op = "addPoint" /\ ~call'.threw /\ call'.snapped
        /\ selectedSegments # <<>>
        /\ Last(routePoints').segmentName = Last(selectedSegments))
          => /\ call'.result = selectedSegments
             /\ routePoints' =
                   Append(routePoints, _snapToNearestSegment(call'.point))]_vars

\* C7 amended: when the selection is non-empty, is the one the rule
\* derives from the waypoints, and addPoint's point snaps to the segment
\* that is its last element, the returned selection is the previous
\* selection and the waypoint is appended to the waypoint list.
C7_SameSegmentKeepsDerivedSelection ==
    [][(/\ call'.op = "addPoint" /\ ~call'.threw /\ call'.snapped
        /\ selectedSegments # <<>>
        /\ selectedSegments = DerivedSelection
        /\ Last(routePoints').segmentName = Last(selectedSegments))
          => /\ call'.result = selectedSegments
             /\ selectedSegments' = selectedSegments
             /\ routePoints' =
                   Append(routePoints, _snapToNearestSegment(call'.point))]_vars

\* C7 witness: an addPoint put a second waypoint on the segment the
\* first waypoint is on, and the selection holds that segment once
C7_Witness ==
    /\ AddedPoint
    /\ Len(routePoints) = 2
    /\ routePoints[1].segmentName = routePoints[2].segmentName
    /\ selectedSegments = <<routePoints[1].segmentName>>

-----------------------------------------------------------------------------
(* Two waypoints on two segments (under SpecAdd) *)

\* some endpoint of segment a is an endpoint of segment b
SharesEndpoint(a, b) ==
    \E k1 \in {"S", "E"} : \E k2 \in {"S", "E"} :
        _getEndpointCoords(a, k1) = _getEndpointCoords(b, k2)

\* C8 as stated: for segments A and B that share an endpoint, a waypoint
\* on A and then a waypoint on B, added to the empty route, give the
\* selection [A, B], and checkSegmentsContinuity([A, B]) reports it
\* continuous.
C8_SharedEndpointPair ==
    (/\ loaded
     /\ Len(routePoints) = 2
     /\ routePoints[1].segmentName # routePoints[2].segmentName
     /\ SharesEndpoint(routePoints[1].segmentName, routePoints[2].segmentName))
        => /\ selectedSegments =
                 <<routePoints[1].segmentName, routePoints[2].segmentName>>
           /\ checkSegmentsContinuity(
                 <<routePoints[1].segmentName, routePoints[2].segmentName>>)
                 = Continuous

\* the extension of selection S to targetPoint is the degenerate
\* fallback: the rule reaches the shortest-path search, and the endpoint
\* graph has no path between the two endpoint nodes the search picks
DegenerateFallback(targetPoint, S) ==
    /\ HasSegmentName(targetPoint)
    /\ Len(S) > 0
    /\ LET L == Last(S)
           T == targetPoint.segmentName
           E == _getCurrentRouteEndpoint(S)
       IN  /\ L # T
           /\ HasSegment(L)
           /\ HasSegment(T)
           /\ ~Has(E, "undefined")
           /\ ~Includes(adjacencyMap[L], T)
           /\ _dijkstraPath(
                  Node(L, _nearestEndpointKeyToPoint(L, E)),
                  Node(T, _nearestEndpointKeyToPoint(T,
                              [lat |-> targetPoint.lat, lng |-> targetPoint.lng])))
                = <<>>

\* C9 as stated: whenever the last extension of the route is the
\* degenerate fallback, checkSegmentsContinuity reports the selection
\* broken at the junction between the two disconnected segments; for a
\* waypoint on A followed by a waypoint on a disconnected C the selection
\* is [A, C] and the index is 0.
C9_FallbackReportedBroken ==
    (/\ loaded
     /\ Len(routePoints) >= 2
     /\ DegenerateFallback(Last(routePoints),
            RuleFold(SubSeq(routePoints, 1, Len(routePoints) - 1), 1, <<>>)))
        => /\ checkSegmentsContinuity(selectedSegments)
                 = Broken(Len(selectedSegments) - 2)
           /\ (Len(routePoints) = 2
                 => selectedSegments =
                       <<routePoints[1].segmentName, routePoints[2].segmentName>>)

-----------------------------------------------------------------------------
(* Points addPoint does not take (under Spec) *)

\* C10: addPoint throws when the point lacks a latitude or a longitude,
\* and returns the current selection when the point snaps to no segment;
\* either way the waypoint list and the selection stay as they were.
C10_RejectedPointChangesNothing ==
    [][call'.op = "addPoint"
          => /\ (~ValidPoint(call'.point) => call'.threw)
             /\ (call'.threw => UNCHANGED <<routePoints, selectedSegments>>)
             /\ ((~call'.threw /\ ~Snaps(call'.point))
                   => /\ call'.result = selectedSegments
                      /\ UNCHANGED <<routePoints, selectedSegments>>)]_vars

\* C10 witness: addPoint threw on a point without a latitude while the
\* route held two waypoints and a selection
C10_Witness ==
    /\ call.op = "addPoint"
    /\ call.threw
    /\ ~Has(call.point, "lat")
    /\ Len(routePoints) = 2
    /\ selectedSegments # <<>>

-----------------------------------------------------------------------------
(* What load accepts (under SpecLoad) *)

\* the input holds a polyline: a feature list with a LineString feature
HasPolyline(geoJsonData) ==
    /\ Has(geoJsonData, "features")
    /\ \E i \in 1..Len(geoJsonData.features) : IsLineString(geoJsonData.features[i])

\* C11 as stated: load fails whenever its input holds no valid polyline
\* (a feature collection that is empty or holds no LineString feature
\* included) and succeeds when at least one valid polyline is present.
C11_LoadRejectsNoPolyline ==
    call.op = "load" => (call.threw <=> ~HasPolyline(call.geoJsonData))

-----------------------------------------------------------------------------
(* The waypoints the engine holds (under SpecWaypoints) *)

\* the waypoint carries the name of a stored segment within 100 m of it
SnappedWaypoint(p) ==
    /\ HasSegmentName(p)
    /\ HasSegment(p.segmentName)
    /\ DistanceToPolyline(p, Coordinates(p.segmentName)) <= 100

\* C12 as stated: after any sequence of addPoint, recalculateRoute and
\* restoreFromPoints calls every waypoint of the engine is snapped; a
\* point that snaps to no segment is not in the waypoint list, and the
\* selection holds stored segments only.
C12_WaypointsSnapped ==
    /\ \A i \in 1..Len(routePoints) :
          Snaps(routePoints[i]) /\ SnappedWaypoint(routePoints[i])
    /\ \A i \in 1..Len(selectedSegments) : HasSegment(selectedSegments[i])

-----------------------------------------------------------------------------
(* restoreFromPoints and the selection held before it (under Spec) *)

\* C13 as stated: restoreFromPoints(points) returns the selection
\* recomputed from points, except that whenever the recomputation yields
\* an empty selection while the selection before the call was non-empty,
\* an empty points list included, it returns and retains the selection
\* held before the call.
C13_RestoreFallsBack ==
    [][call'.op = "restoreFromPoints"
          => /\ call'.result =
                   IF RuleFold(routePoints', 1, <<>>) = <<>> /\ selectedSegments # <<>>
                   THEN selectedSegments
                   ELSE RuleFold(routePoints', 1, <<>>)
             /\ selectedSegments' = call'.result]_vars

\* C13 amended: restoreFromPoints(points) with no valid point clears the
\* waypoints and the selection and returns the empty selection; with a
\* valid point it returns and retains the selection recomputed from the
\* points, or the selection held before the call when the recomputation
\* yields an empty selection and that selection was non-empty.
C13_RestoreFallsBackUnlessNoPoints ==
    [][call'.op = "restoreFromPoints"
          => /\ call'.result =
                   IF SelectSeq(call'.points, ValidPoint) = <<>> THEN <<>>
                   ELSE IF RuleFold(routePoints', 1, <<>>) = <<>>
                           /\ selectedSegments # <<>>
                   THEN selectedSegments
                   ELSE RuleFold(routePoints', 1, <<>>)
             /\ selectedSegments' = call'.result
             /\ (SelectSeq(call'.points, ValidPoint) = <<>> => routePoints' = <<>>)]_vars

\* C13 witness: restoreFromPoints was handed points of which none snapped
\* and kept a selection of two segments or more
C13_Witness ==
    /\ call.op = "restoreFromPoints"
    /\ Len(call.points) >= 1
    /\ \A i \in 1..Len(routePoints) : ~HasSegmentName(routePoints[i])
    /\ Len(selectedSegments) >= 2
    /\ call.result = selectedSegments

-----------------------------------------------------------------------------
(* removePoint out of range (under Spec) *)

\* C14: removePoint(index) with index < 0 or index >= the number of
\* waypoints leaves the waypoint list and the selection unchanged and
\* returns the current selection.
C14_OutOfRangeRemoveChangesNothing ==
    [][(/\ call'.op = "removePoint"
        /\ (call'.index < 0 \/ call'.index >= Len(routePoints)))
          => /\ UNCHANGED <<routePoints, selectedSegments>>
             /\ call'.result = selectedSegments]_vars

\* C14 witness: removePoint was called with a negative index on a route of
\* two waypoints whose selection is not empty
C14_Witness ==
    /\ call.op = "removePoint"
    /\ call.index < 0
    /\ Len(routePoints) = 2
    /\ selectedSegments # <<>>

-----------------------------------------------------------------------------
(* findPathBetweenPoints and the route (under SpecPath) *)

\* C15: findPathBetweenPoints(a, b) returns what it returned the first
\* time it was asked about (a, b) on the loaded network, whatever the
\* waypoints and the selection are now and were then, and the call leaves
\* the waypoint list and the selection unchanged.
C15_PathIgnoresRoute ==
    [][call'.op = "findPathBetweenPoints"
          => /\ call'.result = answers'[<<call'.startPoint, call'.endPoint>>].result
             /\ UNCHANGED <<routePoints, selectedSegments>>]_vars

\* C15 witness: a pair of points first asked about on the empty route was
\* asked about again with two waypoints and a selection of two segments
\* or more, and the answer runs over two segments or more
C15_Witness ==
    /\ call.op = "findPathBetweenPoints"
    /\ answers[<<call.startPoint, call.endPoint>>].waypoints = 0
    /\ Len(routePoints) = 2
    /\ Len(selectedSegments) >= 2
    /\ Len(call.result) >= 2

-----------------------------------------------------------------------------
(* The network after load (under SpecFrame) *)

\* C16: after load no operation (addPoint, removePoint, recalculateRoute,
\* restoreFromPoints, updateInternalState, clearRoute, findClosestSegment,
\* findPathBetweenPoints, checkSegmentsContinuity, getRouteInfo) changes
\* the stored coordinate sequences or their order, the segment metrics,
\* the adjacency map or the endpoint graph; a segment reversed while the
\* ordered coordinates are built stays as stored.
C16_NetworkReadOnlyAfterLoad ==
    [][loaded => UNCHANGED <<segments, segmentMetrics, adjacencyMap, endpointGraph>>]_vars

\* C16 witness: getRouteInfo returned ordered coordinates that start at
\* the stored last coordinate of the first selected segment, so the
\* orderer reversed that segment
C16_Witness ==
    /\ call.op = "getRouteInfo"
    /\ Len(selectedSegments) >= 2
    /\ HasSegment(selectedSegments[1])
    /\ call.result.orderedCoordinates[1] = Last(Coordinates(selectedSegments[1]))
    /\ Coordinates(selectedSegments[1])[1] # Last(Coordinates(selectedSegments[1]))

-----------------------------------------------------------------------------
(* The distance of the route (under Spec) *)

RECURSIVE LengthSum(_, _, _)
\* the sum, over the entries of segs from entry i on, of the length of the
\* entry's stored polyline, walked backwards when reversed is TRUE; a name
\* of no stored segment has no length
LengthSum(segs, i, reversed) ==
    IF i > Len(segs) THEN 0
    ELSE (IF HasSegment(segs[i])
          THEN PolylineLength(IF reversed THEN Reverse(Coordinates(segs[i]))
                              ELSE Coordinates(segs[i]), 1)
          ELSE 0)
         + LengthSum(segs, i + 1, reversed)

\* C17: in every reachable state getRouteInfo().distance equals the sum,
\* over the entries of the selection (a segment that occurs several times
\* is counted each time), of the segment's length, in whichever direction
\* the segment is walked.
C17_DistanceIsSumOfLengths ==
    /\ getRouteInfo.distance = LengthSum(selectedSegments, 1, FALSE)
    /\ getRouteInfo.distance = LengthSum(selectedSegments, 1, TRUE)

\* C17 witness: the selection holds some stored segment twice, and the
\* orderer walks its first segment backwards
C17_Witness ==
    /\ \E i, j \in 1..Len(selectedSegments) :
          i < j /\ selectedSegments[i] = selectedSegments[j]
                /\ HasSegment(selectedSegments[i])
    /\ HasSegment(selectedSegments[1])
    /\ getRouteInfo.orderedCoordinates[1] = Last(Coordinates(selectedSegments[1]))
    /\ getRouteInfo.distance > 0

-----------------------------------------------------------------------------
(* The route after clearRoute (under Spec) *)

\* C18: from any reachable state, clearRoute() followed by getRouteInfo()
\* yields an empty waypoint list, an empty selection, distance 0 and empty
\* ordered coordinates.
C18_ClearedRouteIsEmpty ==
    call.op = "clearRoute"
        => /\ getRouteInfo.points = <<>>
           /\ getRouteInfo.segments = <<>>
           /\ getRouteInfo.distance = 0
           /\ getRouteInfo.orderedCoordinates = <<>>

\* C18 witness: clearRoute cleared a route of three waypoints whose
\* selection held four segments or more
C18_Witness ==
    /\ call.op = "clearRoute"
    /\ call.cleared.points = 3
    /\ call.cleared.segments >= 4

-----------------------------------------------------------------------------
(* Termination of the shortest-path search (under SpecSearchFair) *)

\* three nodes of the endpoint graph joined in a cycle of zero-weight
\* junction edges
ZeroWeightCycle ==
    \E a, b, c \in {GraphNodes[i] : i \in 1..Len(GraphNodes)} :
        /\ a # b /\ b # c /\ a # c
        /\ [to |-> b, weight |-> 0] \in {GraphEdges(a)[e] : e \in 1..Len(GraphEdges(a))}
        /\ [to |-> c, weight |-> 0] \in {GraphEdges(b)[e] : e \in 1..Len(GraphEdges(b))}
        /\ [to |-> a, weight |-> 0] \in {GraphEdges(c)[e] : e \in 1..Len(GraphEdges(c))}

\* C19: every shortest-path search that is started returns, its while
\* loop and its predecessor walk included, on every graph, with the target
\* out of reach and with cycles of zero-weight junction edges; what it
\* returns is the path the engine's calls compute in one piece.
C19_SearchTerminates ==
    /\ [](search.pc = "done"
            => search.path = _dijkstraPath(search.srcNode, search.dstNode))
    /\ (search.pc \in {"loop", "walk"}) ~> (search.pc = "done")

\* C19 witness: on a graph with a cycle of zero-weight junction edges a
\* search has returned a path of four nodes or more
C19_Witness ==
    /\ search.pc = "done"
    /\ ZeroWeightCycle
    /\ Len(search.path) >= 4

-----------------------------------------------------------------------------
(* The round trip of a route string (under SpecRoute) *)

\* the ids of the names, as the round-trip test reads them back:
\* segmentsData[name]?.id, undefined ids filtered out
IdsOfNames(names, segmentsData) ==
    LET ids == [i \in 1..Len(names) |->
                   IF \E k \in 1..Len(segmentsData) : segmentsData[k].name = names[i]
                   THEN segmentsData[CHOOSE k \in 1..Len(segmentsData) :
                                         segmentsData[k].name = names[i]].id
                   ELSE -1]
    IN  SelectSeq(ids, LAMBDA id : id # -1)

\* every id of the list is the id of an entry of the metadata
AllInMetadata(segmentIds, segmentsData) ==
    \A i \in 1..Len(segmentIds) :
        \E k \in 1..Len(segmentsData) : segmentsData[k].id = segmentIds[i]

\* C20 as stated: for every non-empty list of segment ids that all appear
\* in the metadata, entries with a split list included,
\* decodeRoute(encodeRoute(ids), metadata) returns names whose ids, in
\* order, are the original list.
C20_RoundTrip ==
    (/\ call.op = "decodeRoute"
     /\ call.segmentIds # <<>>
     /\ AllInMetadata(call.segmentIds, call.segmentsData))
        => IdsOfNames(call.result, call.segmentsData) = call.segmentIds

-----------------------------------------------------------------------------
(* The extension onto an adjacent segment (under Spec) *)

\* the waypoint targetPoint lies on a segment that differs from the last
\* segment of S and is in its adjacency set
OntoAdjacent(targetPoint, S) ==
    /\ HasSegmentName(targetPoint)
    /\ Len(S) >= 1
    /\ targetPoint.segmentName # Last(S)
    /\ Last(S) \in DOMAIN adjacencyMap
    /\ Includes(adjacencyMap[Last(S)], targetPoint.segmentName)

\* the trailing endpoint E of S: the last of its ordered coordinates
TrailingEndpoint(S) == Last(_getOrderedCoordinatesForSegments(S))

\* the extension C21 describes: T alone when the nearer end of T is within
\* 50 m of E, L and then T otherwise
HookupOrReverse(T, L, E) ==
    IF \E key \in {"S", "E"} : _getDistance(E, _getEndpointCoords(T, key)) <= 50
    THEN <<T>>
    ELSE <<L, T>>

\* C21: for a selection S of two segments or more and a waypoint on a
\* segment T that differs from the last segment L of S and is in L's
\* adjacency set, the extension is [T] when the nearer of T's two endpoints
\* lies within 50 m of the trailing endpoint of S, and [L, T] otherwise.
C21_AdjacentHookupOrReverse ==
    \A lat \in ClickLats :
        (/\ OntoAdjacent(_snapToNearestSegment(Coord(lat)), selectedSegments)
         /\ Len(selectedSegments) >= 2)
          => _findRouteExtensionToPoint(_snapToNearestSegment(Coord(lat)),
                                        selectedSegments)
               = HookupOrReverse(_snapToNearestSegment(Coord(lat)).segmentName,
                                 Last(selectedSegments),
                                 TrailingEndpoint(selectedSegments))

\* C21 witness: addPoint put a third waypoint on a segment adjacent to the
\* last of two selected segments, too far from the trailing endpoint, and
\* the selection grew by that last segment and the waypoint's segment
C21_Witness ==
    /\ AddedPoint
    /\ Len(routePoints) = 3
    /\ Len(selectedSegments) = 4
    /\ OntoAdjacent(routePoints[3], SubSeq(selectedSegments, 1, 2))
    /\ SubSeq(selectedSegments, 3, 4)
         = <<selectedSegments[2], routePoints[3].segmentName>>
    /\ \A key \in {"S", "E"} :
          _getDistance(TrailingEndpoint(SubSeq(selectedSegments, 1, 2)),
                       _getEndpointCoords(routePoints[3].segmentName, key)) > 50

-----------------------------------------------------------------------------
(* Minimum weights in the endpoint graph *)

NodeSet == {GraphNodes[i] : i \in 1..Len(GraphNodes)}

Least(S) == CHOOSE x \in S : \A y \in S : x <= y

\* the weights of the edges from node u to node v
EdgeWeights(u, v) ==
    {GraphEdges(u)[e].weight : e \in {f \in 1..Len(GraphEdges(u)) : GraphEdges(u)[f].to = v}}

\* one round of relaxation of every edge of the graph
RelaxAll(dist) ==
    [v \in DOMAIN dist |->
        Least({dist[v]} \cup
              UNION {{dist[u] + w : w \in EdgeWeights(u, v)} :
                        u \in {x \in DOMAIN dist : dist[x] < Infinity}})]

RECURSIVE Relaxed(_, _)
\* rounds of relaxation until nothing changes, k rounds at most
Relaxed(dist, k) ==
    IF k = 0 \/ RelaxAll(dist) = dist THEN dist ELSE Relaxed(RelaxAll(dist), k - 1)

\* the least total weight of a path from src to dst in the endpoint graph
\* (Bellman-Ford); Infinity when there is none
MinimumWeight(src, dst) ==
    Relaxed([n \in NodeSet |-> IF n = src THEN 0 ELSE Infinity],
            Cardinality(NodeSet))[dst]

\* path runs from src to dst along edges of the endpoint graph
IsGraphPath(path, src, dst) ==
    /\ Len(path) >= 1
    /\ path[1] = src
    /\ path[Len(path)] = dst
    /\ \A i \in 1..(Len(path) - 1) : EdgeWeights(path[i], path[i + 1]) # {}

RECURSIVE WeightFrom(_, _)
\* the total weight of a graph path from its node i on
WeightFrom(path, i) ==
    IF i >= Len(path) THEN 0
    ELSE Least(EdgeWeights(path[i], path[i + 1])) + WeightFrom(path, i + 1)

\* path is a path of least weight from src to dst
IsMinimumPath(path, src, dst) ==
    /\ IsGraphPath(path, src, dst)
    /\ WeightFrom(path, 1) = MinimumWeight(src, dst)

-----------------------------------------------------------------------------
(* The extension onto a segment that is not adjacent (under Spec) *)

\* the waypoint targetPoint lies on a stored segment that differs from the
\* last segment of S, which is stored, and is not in its adjacency set
OntoDistant(targetPoint, S) ==
    /\ HasSegmentName(targetPoint)
    /\ Len(S) >= 1
    /\ targetPoint.segmentName # Last(S)
    /\ HasSegment(Last(S))
    /\ HasSegment(targetPoint.segmentName)
    /\ ~Includes(adjacencyMap[Last(S)], targetPoint.segmentName)

\* the endpoint node of L nearest the trailing endpoint of S
LeavingNode(S) ==
    Node(Last(S), _nearestEndpointKeyToPoint(Last(S), TrailingEndpoint(S)))

\* the endpoint node of T nearest the waypoint's location on T
EntryNode(targetPoint) ==
    Node(targetPoint.segmentName,
         _nearestEndpointKeyToPoint(targetPoint.segmentName,
                                    [lat |-> targetPoint.lat, lng |-> targetPoint.lng]))

\* a leading L goes when S has exactly one element
WithoutLeading(S, segs) ==
    IF Len(S) = 1 /\ segs # <<>> /\ segs[1] = S[1] THEN Tail(segs) ELSE segs

\* segs followed by T unless it ends with T
EndingWith(segs, T) ==
    IF segs # <<>> /\ Last(segs) = T THEN segs ELSE Append(segs, T)

\* C22 as stated, for a path found by the search
PathSegmentsAreExtension(targetPoint, S, path) ==
    (OntoDistant(targetPoint, S) /\ path # <<>>)
        => /\ IsMinimumPath(path, LeavingNode(S), EntryNode(targetPoint))
           /\ _findRouteExtensionToPoint(targetPoint, S)
                = WithoutLeading(S, _nodesPathToSegments(path))

\* C22 amended, for the path the search returns (none: <<>>)
PathSegmentsAndTargetAreExtension(targetPoint, S, path) ==
    OntoDistant(targetPoint, S)
        => /\ path # <<>> =>
                 IsMinimumPath(path, LeavingNode(S), EntryNode(targetPoint))
           /\ path = <<>> =>
                 MinimumWeight(LeavingNode(S), EntryNode(targetPoint)) = Infinity
           /\ _findRouteExtensionToPoint(targetPoint, S)
                = WithoutLeading(S,
                      EndingWith(IF path = <<>> THEN <<Last(S)>>
                                 ELSE _nodesPathToSegments(path),
                                 targetPoint.segmentName))

\* the path searched for the waypoint targetPoint from the selection S
SearchedPath(targetPoint, S) ==
    IF OntoDistant(targetPoint, S)
    THEN _dijkstraPath(LeavingNode(S), EntryNode(targetPoint))
    ELSE <<>>

\* C22 as stated: when the waypoint's segment T differs from the last
\* segment L and is not in L's adjacency set, the extension equals the
\* segment sequence of a minimum-weight endpoint-graph path from the
\* endpoint node of L nearest the trailing endpoint to the endpoint node of
\* T nearest the waypoint's location, a leading L removed when S has
\* exactly one element.
C22_ExtensionIsPathSegments ==
    \A lat \in ClickLats :
        PathSegmentsAreExtension(_snapToNearestSegment(Coord(lat)), selectedSegments,
            SearchedPath(_snapToNearestSegment(Coord(lat)), selectedSegments))

\* C22 amended: for stored segments L and T as above, the extension is the
\* segment sequence of a minimum-weight path between the two endpoint
\* nodes, followed by T unless it already ends with T; when the graph has
\* no path between the two nodes it is L followed by T; either way a
\* leading L is removed when S has exactly one element.
C22_ExtensionIsPathSegmentsThenTarget ==
    \A lat \in ClickLats :
        PathSegmentsAndTargetAreExtension(_snapToNearestSegment(Coord(lat)),
            selectedSegments,
            SearchedPath(_snapToNearestSegment(Coord(lat)), selectedSegments))

\* C22 witness: addPoint put a second waypoint on a segment that is not
\* adjacent to the first waypoint's, the search found a path that ends at
\* the near end of that segment, and the selection holds three segments
C22_Witness ==
    /\ AddedPoint
    /\ Len(routePoints) = 2
    /\ HasSegmentName(routePoints[1])
    /\ OntoDistant(routePoints[2], <<routePoints[1].segmentName>>)
    /\ SearchedPath(routePoints[2], <<routePoints[1].segmentName>>) # <<>>
    /\ Len(selectedSegments) = 3
    /\ Last(selectedSegments) = routePoints[2].segmentName

-----------------------------------------------------------------------------
(* The path the shortest-path search returns (under SpecSearch) *)

\* C23: for endpoint nodes src and dst with dst reachable from src, the
\* search returns a node path that starts at src, ends at dst, whose
\* consecutive nodes are joined by edges of the endpoint graph, and whose
\* total weight is the least over all paths from src to dst.
C23_SearchFindsMinimumPath ==
    (/\ search.pc = "done"
     /\ search.srcNode \in NodeSet
     /\ search.dstNode \in NodeSet
     /\ MinimumWeight(search.srcNode, search.dstNode) < Infinity)
        => IsMinimumPath(search.path, search.srcNode, search.dstNode)

\* C23 witness: a search has returned a path of three nodes or more that
\* takes a zero-weight junction edge, between nodes that a heavier route
\* joins as well
C23_Witness ==
    /\ search.pc = "done"
    /\ Len(search.path) >= 3
    /\ IsMinimumPath(search.path, search.srcNode, search.dstNode)
    /\ \E i \in 1..(Len(search.path) - 1) :
          /\ search.path[i][1] # search.path[i + 1][1]
          /\ 0 \in EdgeWeights(search.path[i], search.path[i + 1])
    /\ \E v \in NodeSet :
          /\ EdgeWeights(search.srcNode, v) # {}
          /\ MinimumWeight(v, search.dstNode) < Infinity
          /\ Least(EdgeWeights(search.srcNode, v)) + MinimumWeight(v, search.dstNode)
                > MinimumWeight(search.srcNode, search.dstNode)
          /\ v \notin {search.path[i] : i \in 1..Len(search.path)}

-----------------------------------------------------------------------------
(* Elevation and the direction of travel (under Spec) *)

\* the coordinates of segs[i] in the direction the CoordinateOrderer lays
\* them out, lastPoint being the last coordinate laid out before them
LaidOut(segs, i, lastPoint) ==
    IF i = 1
    THEN IF Len(segs) > 1 /\ HasSegment(segs[2])
         THEN _orientSegmentForConnection(Coordinates(segs[1]), Coordinates(segs[2]),
                                          TRUE, Undefined)
         ELSE Coordinates(segs[1])
    ELSE _orientSegmentForConnection(Coordinates(segs[i]), <<>>, FALSE, lastPoint)

\* the metrics of segment name in the direction its coordinates coords run
DirectedMetrics(name, coords) ==
    IF coords = Coordinates(name)
    THEN segmentMetrics[name].forward
    ELSE segmentMetrics[name].reverse

RECURSIVE LayoutElevation(_, _, _, _)
\* the gain and loss of segs[i], segs[i + 1], ... added to total, each
\* segment taken in the direction it is laid out in
LayoutElevation(segs, i, lastPoint, total) ==
    IF i > Len(segs) THEN total
    ELSE IF ~HasSegment(segs[i]) THEN LayoutElevation(segs, i + 1, lastPoint, total)
    ELSE LayoutElevation(segs, i + 1, Last(LaidOut(segs, i, lastPoint)),
             [gain |-> total.gain
                         + DirectedMetrics(segs[i], LaidOut(segs, i, lastPoint)).elevationGain,
              loss |-> total.loss
                         + DirectedMetrics(segs[i], LaidOut(segs, i, lastPoint)).elevationLoss])

\* C24 as stated: for every selection, getRouteInfo adds up each selected
\* segment's elevation gain and loss in the direction in which the
\* CoordinateOrderer lays the segment out in orderedCoordinates: forward
\* metrics in stored order, reverse metrics when reversed, the first
\* segment included.
C24_ElevationFollowsLayout ==
    loaded =>
        /\ getRouteInfo.elevationGain
             = LayoutElevation(selectedSegments, 1, Undefined,
                               [gain |-> 0, loss |-> 0]).gain
        /\ getRouteInfo.elevationLoss
             = LayoutElevation(selectedSegments, 1, Undefined,
                               [gain |-> 0, loss |-> 0]).loss

-----------------------------------------------------------------------------
(* The second segment of a route (under Spec) *)

\* C25: when the selection has exactly one segment L and the waypoint
\* snaps to a different segment T in L's adjacency set, the extension is
\* [T], with no reversal through L, whichever end of L touches T.
C25_SecondSegmentAlone ==
    \A lat \in ClickLats :
        (/\ OntoAdjacent(_snapToNearestSegment(Coord(lat)), selectedSegments)
         /\ Len(selectedSegments) = 1)
          => _findRouteExtensionToPoint(_snapToNearestSegment(Coord(lat)),
                                        selectedSegments)
               = <<_snapToNearestSegment(Coord(lat)).segmentName>>

\* C25 witness: addPoint put the second waypoint on a segment that touches
\* the stored start of the first waypoint's segment and is farther than
\* 50 m from its stored end, and the selection is the two segments
C25_Witness ==
    /\ AddedPoint
    /\ Len(routePoints) = 2
    /\ HasSegmentName(routePoints[1])
    /\ OntoAdjacent(routePoints[2], <<routePoints[1].segmentName>>)
    /\ selectedSegments = <<routePoints[1].segmentName, routePoints[2].segmentName>>
    /\ \A key \in {"S", "E"} :
          _getDistance(_getEndpointCoords(routePoints[1].segmentName, "E"),
                       _getEndpointCoords(routePoints[2].segmentName, key)) > 50
    /\ \E key \in {"S", "E"} :
          _getDistance(_getEndpointCoords(routePoints[1].segmentName, "S"),
                       _getEndpointCoords(routePoints[2].segmentName, key)) <= 50

-----------------------------------------------------------------------------
(* A coordinate that is 0 (under SpecAdd) *)

\* C26 as stated: addPoint throws only when a coordinate is absent; a point
\* whose latitude or longitude is the number 0 is accepted, snapped and
\* added like any other point: when it snaps, the snapped waypoint is
\* appended to the waypoint list.
C26_ZeroCoordinateAccepted ==
    [][(call'.op = "addPoint" /\ ValidPoint(call'.point))
          => /\ ~call'.threw
             /\ Snaps(call'.point)
                   => routePoints' =
                         Append(routePoints, _snapToNearestSegment(call'.point))]_vars

-----------------------------------------------------------------------------
(* The ends of a path between two points (under SpecPath) *)

\* C27 as stated: for points a and b that snap to two different segments A
\* and B, findPathBetweenPoints(a, b) returns a segment sequence whose
\* first element is A and whose last element is B.
C27_PathRunsFromSegmentToSegment ==
    (/\ call.op = "findPathBetweenPoints"
     /\ Snaps(call.startPoint)
     /\ Snaps(call.endPoint)
     /\ findClosestSegment(call.startPoint) # findClosestSegment(call.endPoint))
        => /\ call.result # <<>>
           /\ call.result[1] = findClosestSegment(call.startPoint)
           /\ Last(call.result) = findClosestSegment(call.endPoint)

-----------------------------------------------------------------------------
(* The search between two segments (under SpecSegmentPath) *)

\* the node the search leaves from: the end of the start segment nearest
\* the route endpoint, its geometric end when none is given
StartNodeOf(c) ==
    IF Has(c.options.routeEndpointPoint, "undefined")
    THEN Node(c.startSegmentName, "E")
    ELSE Node(c.startSegmentName,
              _nearestEndpointKeyToPoint(c.startSegmentName, c.options.routeEndpointPoint))

\* the node the search is sent to: the end of the end segment nearest the
\* entry point
TargetNodeOf(c) ==
    Node(c.endSegmentName,
         _nearestEndpointKeyToPoint(c.endSegmentName, c.options.targetEntryPoint))

\* the call c of the search names two segments and a target endpoint node
\* that is not reachable from the start endpoint node
TargetUnreachable(c) ==
    /\ c.op = "_findShortestSegmentPath"
    /\ c.startSegmentName # c.endSegmentName
    /\ ~Has(c.options.targetEntryPoint, "undefined")
    /\ MinimumWeight(StartNodeOf(c), TargetNodeOf(c)) = Infinity

\* C28: when the target endpoint node is unreachable from the start
\* endpoint node in the endpoint graph, the shortest-path search between
\* segments returns exactly the two-element list [startSegment, endSegment].
C28_UnreachableGivesFallback ==
    TargetUnreachable(call)
        => call.result = <<call.startSegmentName, call.endSegmentName>>

\* C28 witness: on a network with junction edges the search was sent to a
\* node it cannot reach and returned the two segments
C28_Witness ==
    /\ TargetUnreachable(call)
    /\ call.result = <<call.startSegmentName, call.endSegmentName>>
    /\ \E v \in NodeSet :
          /\ v[1] # call.startSegmentName
          /\ MinimumWeight(StartNodeOf(call), v) < Infinity

-----------------------------------------------------------------------------
(* The segment a route ends with (under Spec) *)

\* C29: after every addPoint call whose point snaps to a segment T, the
\* last element of the returned selection is T.
C29_SelectionEndsWithSnappedSegment ==
    (call.op = "addPoint" /\ ~call.threw /\ call.snapped)
        => /\ call.result # <<>>
           /\ Last(call.result) = findClosestSegment(call.point)

\* C29 witness: addPoint put a third waypoint on a segment that is not
\* adjacent to the last of the segments selected before, the selection
\* grew by more than one segment and ends with the waypoint's segment
C29_Witness ==
    /\ AddedPoint
    /\ Len(routePoints) = 3
    /\ OntoDistant(routePoints[3],
                   RuleFold(SubSeq(routePoints, 1, 2), 1, <<>>))
    /\ Len(call.result) > Len(RuleFold(SubSeq(routePoints, 1, 2), 1, <<>>)) + 1
    /\ Last(call.result) = routePoints[3].segmentName

-----------------------------------------------------------------------------
(* Joins of the ordered coordinates (under Spec) *)

\* segs[i] is laid out after lastPoint with a join of at most 50 m
CloseJoin(segs, i, lastPoint) ==
    /\ i > 1
    /\ _getDistance(lastPoint, LaidOut(segs, i, lastPoint)[1]) <= 50

RECURSIVE Joined(_, _, _, _)
\* the stored segments of segs from segs[i] on, joined as C30 describes;
\* acc holds the coordinates so far, the vertices of the segments laid
\* out, and the numbers of joins of at most 50 m and of more than 50 m
Joined(segs, i, lastPoint, acc) ==
    IF i > Len(segs) THEN acc
    ELSE IF ~HasSegment(segs[i]) THEN Joined(segs, i + 1, lastPoint, acc)
    ELSE Joined(segs, i + 1, Last(LaidOut(segs, i, lastPoint)),
             [coords   |-> acc.coords
                             \o (IF CloseJoin(segs, i, lastPoint)
                                 THEN Tail(LaidOut(segs, i, lastPoint))
                                 ELSE LaidOut(segs, i, lastPoint)),
              vertices |-> acc.vertices + Len(Coordinates(segs[i])),
              close    |-> acc.close + (IF CloseJoin(segs, i, lastPoint) THEN 1 ELSE 0),
              far      |-> acc.far + (IF i > 1 /\ ~CloseJoin(segs, i, lastPoint)
                                      THEN 1 ELSE 0)])

JoinedSelection ==
    Joined(selectedSegments, 1, Undefined,
           [coords |-> <<>>, vertices |-> 0, close |-> 0, far |-> 0])

\* C30: in the ordered coordinates a segment after the first comes without
\* its first coordinate when the running sequence's last point is at most
\* 50 m from the segment's oriented first coordinate, and with all its
\* coordinates when it is farther; the length of the sequence is the sum
\* of the segments' vertex counts less the number of joins of at most 50 m.
C30_CloseJoinsDropOneVertex ==
    loaded =>
        /\ getRouteInfo.orderedCoordinates = JoinedSelection.coords
        /\ Len(getRouteInfo.orderedCoordinates)
             = JoinedSelection.vertices - JoinedSelection.close

\* C30 witness: addPoint left a selection that has a join of at most 50 m
\* and a join of more than 50 m
C30_Witness ==
    /\ AddedPoint
    /\ JoinedSelection.close >= 1
    /\ JoinedSelection.far >= 1
    /\ Len(getRouteInfo.orderedCoordinates)
         = JoinedSelection.vertices - JoinedSelection.close

-----------------------------------------------------------------------------
(* Orientation of the ordered coordinates (under Spec) *)

\* the two directions in which a segment can be laid out
Directions(name) == {Coordinates(name), Reverse(Coordinates(name))}

\* the smaller of the distances from point to the two endpoints of name
NearestEndpointDistance(point, name) ==
    Min2(_getDistance(point, Coordinates(name)[1]),
         _getDistance(point, Last(Coordinates(name))))

\* laid out as o, the first segment ends with its endpoint of the minimum
\* of the four start/end distances to the endpoints of segment next
EndsTowards(o, next) ==
    NearestEndpointDistance(Last(o), next) <= NearestEndpointDistance(o[1], next)

\* laid out as o, a later segment starts with its endpoint nearer to lastPoint
StartsNear(o, lastPoint) ==
    _getDistance(lastPoint, o[1]) <= _getDistance(lastPoint, Last(o))

\* what a later segment laid out as o adds after lastPoint
Appended(o, lastPoint) ==
    IF _getDistance(lastPoint, o[1]) <= 50 THEN Tail(o) ELSE o

\* ordered continues after position pos with app
ContinuesWith(ordered, pos, app) ==
    /\ pos + Len(app) <= Len(ordered)
    /\ SubSeq(ordered, pos + 1, pos + Len(app)) = app

RECURSIVE OrientedFrom(_, _, _, _)
\* the coordinates of ordered after position pos are the segments of segs
\* from segs[i] on, each starting with its endpoint nearer to the point
\* before it
OrientedFrom(ordered, segs, i, pos) ==
    IF i > Len(segs) THEN pos = Len(ordered)
    ELSE \E o \in Directions(segs[i]) :
            /\ StartsNear(o, ordered[pos])
            /\ ContinuesWith(ordered, pos, Appended(o, ordered[pos]))
            /\ OrientedFrom(ordered, segs, i + 1,
                            pos + Len(Appended(o, ordered[pos])))

\* ordered lays out the stored segments segs (two or more) as C31 describes
Oriented(ordered, segs) ==
    \E o \in Directions(segs[1]) :
        /\ EndsTowards(o, segs[2])
        /\ ContinuesWith(ordered, 0, o)
        /\ OrientedFrom(ordered, segs, 2, Len(o))

AllStored(segs) == \A i \in 1..Len(segs) : HasSegment(segs[i])

\* C31: in the ordered coordinates of two or more segments the first
\* segment ends with its endpoint of the minimum of the four start/end
\* distances to the second segment's endpoints, and every later segment
\* starts with its endpoint nearer to the running sequence's last point.
C31_SegmentsFaceTheirNeighbours ==
    (loaded /\ Len(selectedSegments) >= 2 /\ AllStored(selectedSegments))
        => Oriented(getRouteInfo.orderedCoordinates, selectedSegments)

\* C31 witness: addPoint left three stored segments or more, the first
\* laid out reversed, a later one laid out reversed, and one joined over
\* more than 50 m
C31_Witness ==
    /\ AddedPoint
    /\ Len(selectedSegments) >= 3
    /\ AllStored(selectedSegments)
    /\ Oriented(getRouteInfo.orderedCoordinates, selectedSegments)
    /\ ~ContinuesWith(getRouteInfo.orderedCoordinates, 0,
                      Coordinates(selectedSegments[1]))
    /\ \E i \in 2..Len(selectedSegments) :
          \E pos \in 1..Len(getRouteInfo.orderedCoordinates) :
             /\ ContinuesWith(getRouteInfo.orderedCoordinates, pos,
                              Reverse(Coordinates(selectedSegments[i])))
             /\ Reverse(Coordinates(selectedSegments[i]))
                  # Coordinates(selectedSegments[i])
             /\ JoinedSelection.far >= 1

-----------------------------------------------------------------------------
(* Junction edges of the endpoint graph (under SpecSearch) *)

GraphNodeSet == {GraphNodes[i] : i \in 1..Len(GraphNodes)}

\* the endpoint coordinate a node of the graph stands for
NodePoint(node) ==
    IF node[2] = "S" THEN Coordinates(node[1])[1] ELSE Last(Coordinates(node[1]))

\* the junction edges from node a to node b: the edges that name no segment
JunctionsBetween(a, b) ==
    {e \in 1..Len(GraphEdges(a)) :
        /\ GraphEdges(a)[e].to = b
        /\ ~Has(GraphEdges(a)[e], "segment")}

\* a and b are endpoints of different segments within 50 m of each other
TouchingEndpoints(a, b) ==
    /\ a[1] # b[1]
    /\ _getDistance(NodePoint(a), NodePoint(b)) <= 50

\* C32: after load the endpoint graph has a junction edge between two
\* nodes exactly when they belong to different segments and their endpoint
\* coordinates lie within 50 m of each other; every junction edge has
\* weight 0 and is present in both directions.
C32_JunctionsJoinTouchingEndpoints ==
    loaded =>
        \A a \in GraphNodeSet : \A b \in GraphNodeSet :
            /\ (JunctionsBetween(a, b) # {}) <=> TouchingEndpoints(a, b)
            /\ \A e \in JunctionsBetween(a, b) : GraphEdges(a)[e].weight = 0
            /\ Cardinality(JunctionsBetween(a, b)) = Cardinality(JunctionsBetween(b, a))

\* C32 witness: load built a graph with a junction between endpoints some
\* metres apart and without one between endpoints of different segments
\* more than 50 m apart
C32_Witness ==
    /\ loaded
    /\ call.op = "load"
    /\ \E a \in GraphNodeSet : \E b \in GraphNodeSet :
          /\ JunctionsBetween(a, b) # {}
          /\ JunctionsBetween(b, a) # {}
          /\ _getDistance(NodePoint(a), NodePoint(b)) > 0
    /\ \E a \in GraphNodeSet : \E b \in GraphNodeSet :
          /\ a[1] # b[1]
          /\ _getDistance(NodePoint(a), NodePoint(b)) > 50
          /\ JunctionsBetween(a, b) = {}

-----------------------------------------------------------------------------
(* Nodes and traverse edges of the endpoint graph (under SpecLoad) *)

RECURSIVE LengthUpTo(_, _)
\* the length of the first i - 1 edges of polyline coords
LengthUpTo(coords, i) ==
    IF i <= 1 THEN 0
    ELSE LengthUpTo(coords, i - 1) + Abs(coords[i].lat - coords[i - 1].lat)

StoredLength(name) == LengthUpTo(Coordinates(name), Len(Coordinates(name)))

\* the traverse edges from node a to node b
TraversesBetween(a, b) ==
    {e \in 1..Len(GraphEdges(a)) :
        /\ GraphEdges(a)[e].to = b
        /\ Has(GraphEdges(a)[e], "segment")}

\* node a has one traverse edge, to the other end of its segment, whose
\* weight is the segment's length
OneTraverse(a) ==
    /\ Cardinality(TraversesBetween(a, Node(a[1], OtherKey(a[2])))) = 1
    /\ \A e \in TraversesBetween(a, Node(a[1], OtherKey(a[2]))) :
          /\ GraphEdges(a)[e].weight = StoredLength(a[1])
          /\ GraphEdges(a)[e].segment = a[1]
    /\ \A e \in 1..Len(GraphEdges(a)) :
          (GraphEdges(a)[e].weight > 0 \/ Has(GraphEdges(a)[e], "segment"))
             => e \in TraversesBetween(a, Node(a[1], OtherKey(a[2])))

\* C36: after load the endpoint graph contains exactly two nodes per
\* segment, its Start and its End, joined by one traverse edge in each
\* direction whose weight is the segment's length, and contains no other
\* positive-weight edge.
C36_TwoNodesAndOneTraversePerSegment ==
    loaded =>
        /\ GraphNodeSet = {Node(name, key) : name \in SegmentNames(segments),
                                             key \in {"S", "E"}}
        /\ Len(GraphNodes) = 2 * Cardinality(SegmentNames(segments))
        /\ \A a \in GraphNodeSet : OneTraverse(a)

\* C36 witness: load stored two segments from three features, two of them
\* of one name, and the graph has a traverse edge of positive weight
C36_Witness ==
    /\ loaded
    /\ call.op = "load"
    /\ Len(call.geoJsonData.features) = 3
    /\ Cardinality(SegmentNames(segments)) = 2
    /\ Len(GraphNodes) = 4
    /\ \A a \in GraphNodeSet : OneTraverse(a) /\ StoredLength(a[1]) > 0

-----------------------------------------------------------------------------
(* The segment-adjacency relation (under SpecSearch) *)

\* segment b is listed as adjacent to segment a
Adjacent(a, b) == Includes(adjacencyMap[a], b)

\* some endpoint of segment a lies within 50 m of some endpoint of segment b
EndpointsWithinReach(a, b) ==
    \E ka \in {"S", "E"} : \E kb \in {"S", "E"} :
        _getDistance(NodePoint(Node(a, ka)), NodePoint(Node(b, kb))) <= 50

\* C37: after load the segment-adjacency relation is symmetric and
\* irreflexive, and two different segments are adjacent exactly when some
\* endpoint of one lies within 50 m of some endpoint of the other.
C37_AdjacencyIsEndpointReach ==
    loaded =>
        /\ DOMAIN adjacencyMap = SegmentNames(segments)
        /\ \A a \in SegmentNames(segments) :
              /\ ~Adjacent(a, a)
              /\ \A b \in SegmentNames(segments) :
                    /\ Adjacent(a, b) <=> Adjacent(b, a)
                    /\ (a # b) => (Adjacent(a, b) <=> EndpointsWithinReach(a, b))

\* C37 witness: load found two segments adjacent whose starts lie some
\* metres apart and whose other endpoints are out of reach, and two
\* segments that are not adjacent
C37_Witness ==
    /\ loaded
    /\ call.op = "load"
    /\ \E a \in SegmentNames(segments) : \E b \in SegmentNames(segments) :
          /\ a # b
          /\ Adjacent(a, b)
          /\ Adjacent(b, a)
          /\ _getDistance(Coordinates(a)[1], Coordinates(b)[1]) \in 1..50
          /\ _getDistance(Last(Coordinates(a)), Coordinates(b)[1]) > 50
          /\ _getDistance(Coordinates(a)[1], Last(Coordinates(b))) > 50
    /\ \E a \in SegmentNames(segments) : \E b \in SegmentNames(segments) :
          a # b /\ ~Adjacent(a, b) /\ ~EndpointsWithinReach(a, b)

-----------------------------------------------------------------------------
(* A point added and removed again (under SpecEdit) *)

\* this step is removePoint called with the index of the last waypoint
RemovesLastPoint ==
    /\ call'.op = "removePoint"
    /\ call'.index = Len(routePoints) - 1

\* C33: from a state reached by addPoint, removePoint, recalculateRoute
\* and clearRoute calls, a successful addPoint(p) followed at once by
\* removePoint of the last waypoint index restores the waypoint list and
\* the selection that held before the addPoint.
C33_AddThenRemoveRestores ==
    [][(AddedPoint /\ RemovesLastPoint)
          => /\ routePoints' = call.before.routePoints
             /\ selectedSegments' = call.before.selectedSegments]_vars

\* C33 witness: right after an addPoint, removePoint took the last of
\* three waypoints away and left
\* two waypoints on different segments and a selection of two segments or
\* more
C33_Witness ==
    /\ RemovedPoint
    /\ call.after = "addPoint"
    /\ call.index = 2
    /\ Len(routePoints) = 2
    /\ Len(selectedSegments) >= 2
    /\ HasSegmentName(routePoints[1])
    /\ HasSegmentName(routePoints[2])
    /\ routePoints[1].segmentName # routePoints[2].segmentName

-----------------------------------------------------------------------------
(* The names of the selection (under SpecWaypoints) *)

\* C38: after any sequence of addPoint, removePoint, recalculateRoute,
\* restoreFromPoints and clearRoute calls, with arbitrary input points,
\* every name in the selection is the name of a segment in the loaded
\* segment store.
C38_SelectionNamesStoredSegments ==
    loaded => AllStored(selectedSegments)

-----------------------------------------------------------------------------
(* Undo after a change of the route (under SpecPage) *)

\* the handlers that complete a change of the route by the user
RouteChanges == {"addRoutePoint", "removeRoutePoint", "mouseup"}

\* C34: for every route-changing user action (adding a point, removing a
\* point, finishing a drag of a point) a single undo performed immediately
\* afterwards restores the waypoint list to what it was immediately before
\* that action.
C34_UndoRestoresWaypoints ==
    [][(ui.action \in RouteChanges /\ ui'.action = "undo")
          => ui'.routePoints = ui.before.routePoints]_vars

\* C34 limited to adding and removing: a single undo immediately after
\* addRoutePoint or removeRoutePoint restores the waypoint list to what it
\* was immediately before that action.
C34_UndoRestoresAfterAddOrRemove ==
    [][(ui.action \in {"addRoutePoint", "removeRoutePoint"} /\ ui'.action = "undo")
          => ui'.routePoints = ui.before.routePoints]_vars

-----------------------------------------------------------------------------
(* Undo followed by redo (under SpecPage) *)

\* C35: an undo immediately followed by a redo restores both the waypoint
\* list and the selection that existed before the undo, and leaves the
\* engine's waypoints and selection equal to the page's.
C35_RedoRestoresRoute ==
    [][(ui.action = "undo" /\ ui'.action = "redo")
          => /\ ui'.routePoints = ui.before.routePoints
             /\ ui'.selectedSegments = ui.before.selectedSegments
             /\ routePoints' = ui'.routePoints
             /\ selectedSegments' = ui'.selectedSegments]_vars

\* the part of C35 about the waypoints and the engine: after an undo and a
\* redo the page holds the waypoint list it held before the undo, and the
\* engine holds the page's waypoints and selection.
C35_RedoRestoresWaypoints ==
    [][(ui.action = "undo" /\ ui'.action = "redo")
          => /\ ui'.routePoints = ui.before.routePoints
             /\ routePoints' = ui'.routePoints
             /\ selectedSegments' = ui'.selectedSegments]_vars

-----------------------------------------------------------------------------
(* The redo stack (under SpecPage) *)

\* the handlers C39 counts as saving the state
StateSaving == {"addRoutePoint", "removeRoutePoint", "mouseup", "loadRouteFromEncoding"}

\* C39: every state-saving user action (add point, remove point, end of
\* drag, loading a route) empties the redo stack, so redo is available
\* only immediately after one or more undos with no other action in
\* between.
C39_SavingEmptiesRedoStack ==
    /\ ui.action \in StateSaving => ui.redoStack = <<>>
    /\ ui.redoStack # <<>> => ui.action \in {"undo", "redo", "mousedown", "mousemove"}

\* C39 without the loading of a route: after addRoutePoint,
\* removeRoutePoint and the end of a drag the redo stack is empty.
C39_EditsEmptyRedoStack ==
    ui.action \in {"addRoutePoint", "removeRoutePoint", "mouseup"}
        => ui.redoStack = <<>>

=============================================================================
